---- MODULE Spec2Model ----
(***************************************************************************)
(* SpyTON buy bot: the polling pipeline of main.py / pool_watcher.py /     *)
(* db.py as a state machine.                                               *)
(*                                                                         *)
(* polling_loop (main.py:519-546) runs one tick at a time: it reads the    *)
(* enabled group configurations, and for each configuration in turn awaits *)
(* PoolWatcher.poll_group, then delivers the returned events one by one.   *)
(* poll_group (pool_watcher.py:82-195) starts one poll_pool coroutine per  *)
(* configured pool and gathers them; the coroutines interleave at their    *)
(* await points (cursor read, transaction fetch, add_buy, cursor write).   *)
(***************************************************************************)
EXTENDS Integers, Sequences, FiniteSets, Bags, TLC

\* ------------------------------------------------------------------ bounds
\* Number of transactions that can appear on one pool account.
MaxTx == 2
\* Number of injected failures (failed fetch, failed add_buy, failed send).
MaxFaults == 1
\* Number of clock steps (of CHANNEL_DEDUPE_TTL seconds each).
MaxClock == 2
\* Number of buys persisted while the leaderboard is watched.
MaxRows == 3

\* --------------------------------------------------------- program constants
\* main.py:26
CHANNEL_DEDUPE_TTL == 120
\* main.py:520: the ttl_seconds of the polling loop's MetricsCache.
MetricsTtl == 15
\* config.py:53: LEADERBOARD_WINDOW_MINUTES
WindowMinutes == 15
\* leaderboard.py:37: get_recent_leaderboard(..., limit=15)
LeaderboardLimit == 15
\* utils.py:19: sym[:16]
SymbolMax == 16
\* pool_watcher.py:91  get_account_transactions(pool, limit=25)
FetchLimit == 25

None == "None"

\* Transactions of P1 an earlier run has already polled (see WarmStart).
WarmLen == Len(<<1, 3>>)

Pools == {"P1", "P2"}
Groups == {1, 2}
Dexes == <<"STONfi", "DeDust">>

\* ------------------------------------------------------------ chain data
\* The i-th transaction of a pool account.  Logical times grow with i; the
\* first four are 1, 3, 5, 9.
LtOf(i) == IF i <= 3 THEN 2 * i - 1 ELSE 2 * i + 1

\* in_msg.value as the Chain Data Source reports it: an integer number of
\* nanoTON, absent, or a string int() rejects.
RawInt(n) == [k |-> "int", v |-> n]
RawNone == [k |-> "none", v |-> 0]
RawBad == [k |-> "bad", v |-> 0]

ValueOf(i) ==
    CASE i = 1 -> RawInt(500000000)
      [] i = 2 -> RawInt(2000000000)
      [] i = 3 -> RawNone
      [] OTHER -> RawInt(1500000000)

\* transaction_id.hash; the fourth transaction is reported without one.
NoHash == <<>>
HashOf(p, i) == IF i = 4 THEN NoHash ELSE <<p, i>>

\* ------------------------------------------------------------ pure helpers
\* Optional numbers: Python's None or a float.  TON amounts are kept in
\* milliTON (fixed point, three decimals).
NoNum == [some |-> FALSE, v |-> 0]
Num(x) == [some |-> TRUE, v |-> x]

\* utils.py:25  int(n) / 1e9
NanoPerTon == 1000000000

\* utils.nano_to_ton: None for None and for what int() rejects, else
\* int(n) / 1e9 (here in milliTON).
nano_to_ton(n) ==
    IF n.k = "int" THEN Num(n.v \div (NanoPerTon \div 1000)) ELSE NoNum

Max(a, b) == IF a >= b THEN a ELSE b

RECURSIVE InsertByLt(_, _)
\* Insert pair x into the lt-sorted sequence s after every element whose lt
\* is not larger (list.sort is stable).
InsertByLt(s, x) ==
    IF s = <<>> THEN <<x>>
    ELSE IF LtOf(x) < LtOf(Head(s)) THEN <<x>> \o s
    ELSE <<Head(s)>> \o InsertByLt(Tail(s), x)

\* The sort is missing: the batch keeps the order of the response.
SortByLtMissing(s) == s

RECURSIVE SortByLt(_)
\* new.sort(key=lambda x: x[0])  -- pool_watcher.py:107
SortByLt(s) ==
    IF s = <<>> THEN <<>>
    ELSE InsertByLt(SortByLt(SubSeq(s, 1, Len(s) - 1)), s[Len(s)])

RECURSIVE FilterNew(_, _)
\* pool_watcher.py:96-103: keep, in response order, the transactions whose
\* lt is non-zero and strictly above last_lt.
FilterNew(txs, last_lt) ==
    IF txs = <<>> THEN <<>>
    ELSE LET lt == LtOf(Head(txs))
             rest == FilterNew(Tail(txs), last_lt)
         IN IF lt # 0 /\ lt > last_lt THEN <<Head(txs)>> \o rest ELSE rest

\* The account's most recent transactions, newest first, at most FetchLimit.
RECURSIVE Newest(_, _)
Newest(n, k) == IF n = 0 \/ k = 0 THEN <<>> ELSE <<n>> \o Newest(n - 1, k - 1)

\* A response in another order: the newest element moved to third place
\* (9,5,3,1 becomes 5,3,9,1).
Scramble(s) ==
    IF Len(s) < 3 THEN [j \in 1..Len(s) |-> s[Len(s) + 1 - j]]
    ELSE <<s[2], s[3], s[1]>> \o SubSeq(s, 4, Len(s))

\* The bodies get_account_transactions can return for an account that holds
\* n transactions.
Responses(n) == {Newest(n, FetchLimit), Scramble(Newest(n, FetchLimit))}

\* ------------------------------------------------------------ configuration
\* One row of the groups table (db.py:8-17, GroupConfig db.py:40-49).
\* min_buy_ton is in milliTON.
Cfg(gid, on, minbuy, jetton, ston, dedust) ==
    [group_id |-> gid, enabled |-> on, min_buy_ton |-> minbuy,
     jetton_address |-> jetton, stonfi_pool |-> ston, dedust_pool |-> dedust]

\* One group that lists the same account as its STONfi and its DeDust pool
\* (two /setpool commands, main.py:185-197, accept any address).
TableSamePool ==
    (1 :> Cfg(1, TRUE, 1000, None, "P1", "P1")) @@ (2 :> Cfg(2, FALSE, 0, None, None, None))

\* Two groups that watch the same account.
TableShared ==
    (1 :> Cfg(1, TRUE, 1000, None, "P1", None)) @@ (2 :> Cfg(2, TRUE, 0, None, "P1", None))

\* Two groups that watch different accounts; the second has a jetton address.
TableApart ==
    (1 :> Cfg(1, TRUE, 1000, None, "P1", None)) @@ (2 :> Cfg(2, TRUE, 0, "J", None, "P2"))

\* One group with two different pools, polled concurrently.
TablePair ==
    (1 :> Cfg(1, TRUE, 1000, None, "P1", "P2")) @@ (2 :> Cfg(2, FALSE, 0, None, None, None))

Tables == {TableSamePool, TableShared, TableApart, TablePair}

\* Fields of the frozen dataclass Config (config.py:11-26).
ConfigFields ==
    {"bot_token", "owner_id", "trending_channel_id", "trending_channel_username",
     "book_trending_url", "tonapi_base", "tonapi_key", "dexscreener_base",
     "poll_interval_seconds", "leaderboard_interval_seconds",
     "leaderboard_window_minutes", "leaderboard_message_id"}

\* Fields of the dataclass BuyEvent (formatters.py:5-21).
BuyEventFields ==
    {"dex", "token_symbol", "jetton_address", "ton_amount", "usd_amount",
     "jetton_amount", "buyer_address", "holders", "price_usd", "liquidity_usd",
     "mcap_usd", "ton_price_usd", "tx_hash", "links", "rank"}

\* ------------------------------------------------------------------ state
VARIABLES
    groups,          \* groups table: group_id -> configuration
    chainLen,        \* pool -> number of transactions on the account
    chainBase,       \* pool -> number of them that predate the run
    cursor,          \* pool_cursors: pool -> last_lt (0: no row)
    buys,            \* buys table: <<group, dex, pool, tx index>> -> rows
    lpc,             \* polling_loop position
    group_cfgs,      \* polling_loop: configurations read at the tick start
    gi,              \* polling_loop: index of the current configuration
    tasks,           \* poll_group: the poll_pool coroutines (by dex index)
    events,          \* polling_loop: events returned by poll_group
    ei,              \* polling_loop: index of the event being delivered
    channel_recent,  \* _channel_recent: fingerprint -> time of marking
    clock,           \* event-loop time, in steps of CHANNEL_DEDUPE_TTL
    faults,          \* injected failures so far
    hist,            \* history (not program state): what was observed
    lb,              \* LeaderboardService: position of _run, message_id
    lb_rows,         \* buys table as the leaderboard query reads it: a bag of rows
    lb_feed,         \* the buys the poller is going to persist, in order
    lb_clock,        \* time.time() / strftime('%s','now'), in steps of the window
    rank_map,        \* LeaderboardService.rank_map: token key -> rank
    cmd,             \* the /leaderboardnow or /pinleaderboard handler in flight
    lb_log,          \* history (not program state) of the leaderboard message
    seen_call,       \* the last cross-post of an event handed in directly
    m_cache,         \* MetricsCache._cache: key -> [ts, val]
    m_clock,         \* time.time(), in steps of MetricsTtl seconds
    m_tasks,         \* the fetch_token_metrics coroutines in flight
    m_hist           \* history: key -> the snapshot of the fetch that finished last

poll_vars == <<groups, chainLen, chainBase, cursor, buys, lpc, group_cfgs, gi, tasks, events, ei,
               channel_recent, clock, faults, hist>>
rank_vars == <<lb_rows, lb_feed, lb_clock, rank_map, cmd, lb_log>>
lb_vars == <<lb, rank_vars>>
dedup_vars == <<seen_call>>
metrics_vars == <<m_cache, m_clock, m_tasks, m_hist>>
\* What the polling loop and the poller do not touch.
not_poll == <<lb_vars, dedup_vars, metrics_vars>>
vars == <<poll_vars, lb_vars, dedup_vars, metrics_vars>>

now == clock * CHANNEL_DEDUPE_TTL

BuyKeys == Groups \X {1, 2} \X Pools \X (1..(WarmLen + MaxTx))

IdleTask ==
    [pc |-> "none", pool |-> None, last_lt |-> 0, fetched |-> <<>>, new |-> <<>>,
     i |-> 0, newest_lt |-> 0, out |-> <<>>, visited |-> <<>>, wrote |-> FALSE,
     fetch_raised |-> FALSE]

EmptyHist ==
    [tickCursor |-> [p \in Pools |-> 0],   \* cursor at the start of the tick
     returned |-> [p \in Pools |-> {}],    \* lts returned by successful fetches
     okFetch |-> {},                       \* pools fetched successfully this tick
     failFetch |-> {},                     \* pools whose fetch failed this tick
     failPrev |-> {},                      \* ... in the previous tick
     tried |-> {},                         \* pools fetched (or tried) this tick
     tickOut |-> {},                       \* pools with a row or a post this tick
     groupPosts |-> <<>>,                  \* <<group, pool, tx>> sent to a group, in order
     channelPosts |-> <<>>,                \* <<fingerprint, time>> sent to the channel
     channelTries |-> <<>>,                \* <<fingerprint, time>>: line 541 reached
     suppressed |-> {},                    \* <<group, fingerprint>> the dedup suppressed
     partial |-> <<>>,                     \* the poll that stopped part-way, until polled again
     tickGroups |-> {}]                    \* the groups table since the tick began, until its rows are read

\* leaderboard.py:9-18: a service that has sent no message; _run not yet in
\* a tick.  raised records that a tick of this loop ended with an exception.
LbStart == [pc |-> "top", message_id |-> 0, raised |-> FALSE]

\* History of the leaderboard message, kept when on: a message was created
\* with none held, an edit succeeded, a message was replaced by a new one.
NoLog == [on |-> FALSE, created |-> FALSE, kept |-> FALSE, recreated |-> FALSE]
NewLog == [NoLog EXCEPT !.on = TRUE]
Logged(l, what) == IF l.on THEN [l EXCEPT ![what] = TRUE] ELSE l

\* No buys, an empty rank_map (leaderboard.py:18), no command being handled.
RankStart ==
    /\ lb_rows = EmptyBag
    /\ lb_feed = <<>>
    /\ lb_clock = 0
    /\ rank_map = <<>>
    /\ cmd = [pc |-> "idle"]
    /\ lb_log = NoLog

\* metrics.py:9-11: an empty cache, no fetch in flight.
Callers == {1, 2}
IdleFetch == [pc |-> "idle", key |-> None, out |-> <<>>, calls |-> 0, ret |-> <<>>,
              hit |-> FALSE, chain |-> "none", market |-> "none", overlap |-> FALSE]
MetricsStart ==
    /\ m_cache = <<>>
    /\ m_clock = 0
    /\ m_tasks = [c \in Callers |-> IdleFetch]
    /\ m_hist = <<>>

\* No event has been handed to the cross-post directly.
NoCall == [last |-> <<>>, by |-> <<>>, posts |-> <<>>]

\* A first start: empty accounts, no cursor rows, no buys.
ColdStart ==
    /\ groups \in Tables
    /\ chainLen = [p \in Pools |-> 0]
    /\ chainBase = [p \in Pools |-> 0]
    /\ cursor = [p \in Pools |-> 0]
    /\ buys = [k \in BuyKeys |-> 0]
    /\ hist = EmptyHist

\* A restart: an earlier run has polled the first WarmLen transactions of P1
\* for group 1 of TableSamePool (both coroutines persisted the second one, the
\* first is below the minimum buy).  The tables persist, the memory does not.
WarmStart ==
    /\ groups = TableSamePool
    /\ chainLen = [p \in Pools |-> IF p = "P1" THEN WarmLen ELSE 0]
    /\ chainBase = chainLen
    /\ cursor = [p \in Pools |-> IF p = "P1" THEN LtOf(WarmLen) ELSE 0]
    /\ buys = [k \in BuyKeys |-> IF k[1] = 1 /\ k[3] = "P1" /\ k[4] = WarmLen THEN 1 ELSE 0]
    /\ hist = [EmptyHist EXCEPT !.returned["P1"] = {LtOf(j) : j \in 1..WarmLen}]

Init ==
    /\ ColdStart \/ WarmStart
    /\ lpc = "top"
    /\ group_cfgs = <<>>
    /\ gi = 0
    /\ tasks = [d \in 1..2 |-> IdleTask]
    /\ events = <<>>
    /\ ei = 0
    /\ channel_recent = <<>>
    /\ clock = 0
    /\ faults = 0
    /\ lb = LbStart
    /\ RankStart
    /\ seen_call = NoCall
    /\ MetricsStart

\* --------------------------------------------------------------- poll_pool
\* The configuration poll_group was called with.
CurCfg == group_cfgs[gi]

\* pool_watcher.py:182-186: one coroutine per configured pool, STONfi first.
\* pool_watcher.py:83-84: none for a disabled configuration.
PoolOf(cfg, d) == IF d = 1 THEN cfg.stonfi_pool ELSE cfg.dedust_pool

poll_group_tasks(cfg) ==
    [d \in 1..2 |->
        IF cfg.enabled /\ PoolOf(cfg, d) # None
        THEN [IdleTask EXCEPT !.pc = "start", !.pool = PoolOf(cfg, d)]
        ELSE IdleTask]

\* The filter compares the wrong way round.
SkipTinyInverted(cfg, ton_amount) ==
    cfg.min_buy_ton # 0 /\ ton_amount.some /\ ton_amount.v > cfg.min_buy_ton

\* pool_watcher.py:120: the minimum-buy filter.
SkipTiny(cfg, ton_amount) ==
    cfg.min_buy_ton # 0 /\ ton_amount.some /\ ton_amount.v < cfg.min_buy_ton

\* pool_watcher.py:153-162: the event of transaction i of pool p.  pool and
\* idx are not fields of BuyEvent: they record which transaction it came from.
MakeEvent(d, p, i) ==
    [dex |-> Dexes[d], ton_amount |-> nano_to_ton(ValueOf(i)),
     tx_hash |-> HashOf(p, i), pool |-> p, idx |-> i]

\* The running value keeps the smaller of the two.
NewestLtMin(newest_lt, lt) == IF newest_lt < lt THEN newest_lt ELSE lt

\* The running value is stepped past the transaction.
NewestLtNext(newest_lt, lt) == Max(newest_lt, lt) + 1

\* pool_watcher.py:112
NewestLt(newest_lt, lt) == Max(newest_lt, lt)

LtSet(s) == {LtOf(s[j]) : j \in 1..Len(s)}

\* Coroutine d is the first poll of a pool by a configuration since, in an
\* earlier tick, that configuration's poll of it stopped part-way.
Retries(d) ==
    /\ hist.partial # <<>>
    /\ hist.partial[1].armed
    /\ hist.partial[1].group_id = CurCfg.group_id
    /\ hist.partial[1].pool = tasks[d].pool

\* pool_watcher.py:89
GetCursor(d) ==
    /\ lpc = "poll"
    /\ tasks[d].pc = "start"
    /\ tasks' = [tasks EXCEPT ![d].pc = "fetch", ![d].last_lt = cursor[tasks[d].pool]]
    /\ hist' = [hist EXCEPT !.partial = IF Retries(d) THEN <<>> ELSE @]
    /\ UNCHANGED <<groups, chainLen, chainBase, cursor, buys, lpc, group_cfgs, gi, events, ei,
                   channel_recent, clock, faults>>
    /\ UNCHANGED not_poll

\* pool_watcher.py:91-109: the fetch succeeds; filter, return [] when nothing
\* is new, else sort and enter the loop.  The account holds n transactions
\* when the request is served: those it held before and any that arrived
\* since (arrivals are visible to the program only through a fetch).
FetchOk(d) ==
    /\ lpc = "poll"
    /\ tasks[d].pc = "fetch"
    /\ \E n \in chainLen[tasks[d].pool]..(chainBase[tasks[d].pool] + MaxTx) : \E resp \in Responses(n) :
         LET t == tasks[d]
             new == SortByLt(FilterNew(resp, t.last_lt))
         IN /\ chainLen' = [chainLen EXCEPT ![t.pool] = n]
            /\ tasks' = [tasks EXCEPT ![d] =
                  IF new = <<>>
                  THEN [t EXCEPT !.pc = "done", !.fetched = resp]
                  ELSE [t EXCEPT !.pc = "loop", !.fetched = resp, !.new = new,
                                 !.i = 1, !.newest_lt = t.last_lt]]
            /\ hist' = [hist EXCEPT !.returned[t.pool] = @ \cup LtSet(resp),
                                    !.okFetch = @ \cup {t.pool},
                                    !.tried = @ \cup {t.pool}]
    /\ UNCHANGED <<groups, chainBase, cursor, buys, lpc, group_cfgs, gi, events, ei,
                   channel_recent, clock, faults>>
    /\ UNCHANGED not_poll

\* pool_watcher.py:92-93: the fetch raises; poll_pool returns [].
FetchFail(d) ==
    /\ lpc = "poll"
    /\ tasks[d].pc = "fetch"
    /\ faults < MaxFaults
    /\ faults' = faults + 1
    /\ tasks' = [tasks EXCEPT ![d].pc = "done", ![d].fetch_raised = TRUE]
    /\ hist' = [hist EXCEPT !.failFetch = @ \cup {tasks[d].pool},
                            !.tried = @ \cup {tasks[d].pool}]
    /\ UNCHANGED <<groups, chainLen, chainBase, cursor, buys, lpc, group_cfgs, gi, events, ei,
                   channel_recent, clock>>
    /\ UNCHANGED not_poll

\* pool_watcher.py:111-177: one iteration of the loop over new.
ProcessTx(d) ==
    /\ lpc = "poll"
    /\ tasks[d].pc = "loop"
    /\ tasks[d].i <= Len(tasks[d].new)
    /\ LET t == tasks[d]
           i == t.new[t.i]
           ev == MakeEvent(d, t.pool, i)
           t1 == [t EXCEPT !.newest_lt = NewestLt(t.newest_lt, LtOf(i)),
                           !.visited = Append(@, i), !.i = @ + 1]
       IN IF SkipTiny(CurCfg, ev.ton_amount)
          THEN /\ tasks' = [tasks EXCEPT ![d] = t1]
               /\ UNCHANGED <<buys, hist>>
          ELSE /\ tasks' = [tasks EXCEPT ![d] = [t1 EXCEPT !.out = Append(@, ev)]]
               /\ buys' = [buys EXCEPT ![<<CurCfg.group_id, d, t.pool, i>>] = @ + 1]
               /\ hist' = [hist EXCEPT !.tickOut = @ \cup {t.pool}]
    /\ UNCHANGED <<groups, chainLen, chainBase, cursor, lpc, group_cfgs, gi, events, ei,
                   channel_recent, clock, faults>>
    /\ UNCHANGED not_poll

\* pool_watcher.py:165-177: add_buy raises inside the loop; the coroutine
\* ends with the exception (gather(return_exceptions=True) keeps it).
ProcessFail(d) ==
    /\ lpc = "poll"
    /\ tasks[d].pc = "loop"
    /\ tasks[d].i <= Len(tasks[d].new)
    /\ ~SkipTiny(CurCfg, MakeEvent(d, tasks[d].pool, tasks[d].new[tasks[d].i]).ton_amount)
    /\ faults < MaxFaults
    /\ faults' = faults + 1
    /\ tasks' = [tasks EXCEPT ![d].pc = "failed"]
    /\ hist' = [hist EXCEPT !.partial = <<[group_id |-> CurCfg.group_id, pool |-> tasks[d].pool,
                                           last_lt |-> tasks[d].last_lt, armed |-> FALSE]>>]
    /\ UNCHANGED <<groups, chainLen, chainBase, cursor, buys, lpc, group_cfgs, gi, events, ei,
                   channel_recent, clock>>
    /\ UNCHANGED not_poll

\* pool_watcher.py:179-180 with db.py:98-104: the upsert of the cursor.
SetCursor(d) ==
    /\ lpc = "poll"
    /\ tasks[d].pc = "loop"
    /\ tasks[d].i > Len(tasks[d].new)
    /\ cursor' = [cursor EXCEPT ![tasks[d].pool] = tasks[d].newest_lt]
    /\ tasks' = [tasks EXCEPT ![d].pc = "done", ![d].wrote = TRUE]
    /\ UNCHANGED <<groups, chainLen, chainBase, buys, lpc, group_cfgs, gi, events, ei,
                   channel_recent, clock, faults, hist>>
    /\ UNCHANGED not_poll

\* ------------------------------------------------------------ polling_loop
\* db.get_enabled_groups (db.py:137-140) then db.get_group for each.
EnabledCfgs == SelectSeq([g \in 1..Cardinality(Groups) |-> groups[g]], LAMBDA c : c.enabled)

\* main.py:376-389: the event itself when the configuration has no jetton
\* address; otherwise the function runs off its end and returns None.
enrich_event(ev, gcfg) == IF gcfg.jetton_address = None THEN <<ev>> ELSE <<>>

\* The key is always the composite of the event's other fields.
FingerprintStructural(ev) == <<<<ev.dex, ev.pool, ev.ton_amount>>>>

\* main.py:539: tx_hash, or a composite that reads ev.pool_address and ev.ts.
\* <<>> stands for the AttributeError of a field BuyEvent does not have.
Fingerprint(ev) ==
    IF ev.tx_hash # NoHash THEN <<ev.tx_hash>>
    ELSE IF {"pool_address", "ts"} \subseteq BuyEventFields
         THEN <<<<ev.dex, ev.pool, ev.ton_amount>>>>
         ELSE <<>>

\* Nothing is swept.
SweepNothing(recent, t) == recent

\* main.py:31-33: the sweep.
Sweep(recent, t) ==
    [k \in {x \in DOMAIN recent : ~(t - recent[x] > CHANNEL_DEDUPE_TTL)} |-> recent[k]]

\* A key that is seen has its timestamp refreshed.
channel_seen_refreshing(recent, key, t) ==
    LET swept == Sweep(recent, t)
    IN [seen |-> key \in DOMAIN swept,
        recent |-> [k \in DOMAIN swept \cup {key} |-> IF k = key THEN t ELSE swept[k]]]

\* The membership test is missing: every key is marked and reported new.
channel_seen_unchecked(recent, key, t) ==
    LET swept == Sweep(recent, t)
    IN [seen |-> FALSE, recent |-> [k \in DOMAIN swept \cup {key} |->
                                        IF k = key THEN t ELSE swept[k]]]

\* The key is marked only by a channel post that went through: the call
\* itself leaves no mark behind.
channel_seen_marking_after_post(recent, key, t) ==
    LET swept == Sweep(recent, t)
    IN [seen |-> key \in DOMAIN swept, recent |-> swept]

\* main.py:29-37: the value returned and the map left behind.
channel_seen(recent, key, t) ==
    LET swept == Sweep(recent, t)
    IN IF key \in DOMAIN swept
       THEN [seen |-> TRUE, recent |-> swept]
       ELSE [seen |-> FALSE, recent |-> [k \in DOMAIN swept \cup {key} |->
                                             IF k = key THEN t ELSE swept[k]]]

\* The group post is sent only for a fingerprint that is not live.
post_buy_to_group_gated(posts, gid, ev) ==
    IF Fingerprint(ev) # <<>> /\ Fingerprint(ev)[1] \in DOMAIN Sweep(channel_recent, now)
    THEN posts
    ELSE Append(posts, <<gid, ev.pool, ev.idx>>)

\* main.py:511-513: the posts a group has received, after one more.
post_buy_to_group(posts, gid, ev) == Append(posts, <<gid, ev.pool, ev.idx>>)

\* main.py:541: cfg.trending_channel_username_id is evaluated first.
ChannelDestRaises == "trending_channel_username_id" \notin ConfigFields

\* The exception leaves polling_loop: the task ends.
except_reraises == "stopped"

\* main.py:543-546: the except clause logs and falls through to the sleep.
except_clause == "sleep"

\* main.py:523-524
TickStart ==
    /\ lpc = "top"
    /\ group_cfgs' = EnabledCfgs
    /\ gi' = 1
    /\ lpc' = "next"
    /\ hist' = [hist EXCEPT !.tickCursor = cursor, !.okFetch = {}, !.tried = {},
                            !.failPrev = hist.failFetch, !.failFetch = {},
                            !.tickOut = {},
                            !.partial = IF @ = <<>> THEN @ ELSE <<[@[1] EXCEPT !.armed = TRUE]>>]
    /\ UNCHANGED <<groups, chainLen, chainBase, cursor, buys, tasks, events, ei,
                   channel_recent, clock, faults>>
    /\ UNCHANGED not_poll

\* main.py:526-527 into pool_watcher.py:82-191
PollGroupStart ==
    /\ lpc = "next"
    /\ gi <= Len(group_cfgs)
    /\ tasks' = poll_group_tasks(group_cfgs[gi])
    /\ lpc' = "poll"
    /\ UNCHANGED <<groups, chainLen, chainBase, cursor, buys, group_cfgs, gi, events, ei,
                   channel_recent, clock, faults, hist>>
    /\ UNCHANGED not_poll

\* gather without return_exceptions: the exception of a coroutine leaves
\* poll_group and ends the tick; nothing is returned.
GatherRaises ==
    /\ lpc = "poll"
    /\ \A d \in 1..2 : tasks[d].pc \in {"none", "done", "failed"}
    /\ events' = (IF \E d \in 1..2 : tasks[d].pc = "failed" THEN <<>>
                  ELSE tasks[1].out \o tasks[2].out)
    /\ ei' = 1
    /\ tasks' = [d \in 1..2 |-> IdleTask]
    /\ lpc' = (IF \E d \in 1..2 : tasks[d].pc = "failed" THEN "sleep" ELSE "deliver")
    /\ UNCHANGED <<groups, chainLen, chainBase, cursor, buys, group_cfgs, gi,
                   channel_recent, clock, faults, hist>>
    /\ UNCHANGED not_poll

\* pool_watcher.py:188-195: gather returns; the lists are concatenated in
\* task order, an exception contributes nothing.
GatherDone ==
    /\ lpc = "poll"
    /\ \A d \in 1..2 : tasks[d].pc \in {"none", "done", "failed"}
    /\ events' = (IF tasks[1].pc = "done" THEN tasks[1].out ELSE <<>>)
                 \o (IF tasks[2].pc = "done" THEN tasks[2].out ELSE <<>>)
    /\ ei' = 1
    /\ tasks' = [d \in 1..2 |-> IdleTask]
    /\ lpc' = "deliver"
    /\ UNCHANGED <<groups, chainLen, chainBase, cursor, buys, group_cfgs, gi,
                   channel_recent, clock, faults, hist>>
    /\ UNCHANGED not_poll

\* main.py:535-537: enrich_event returned None and format_group_buy(None)
\* raises; the except clause of the tick (main.py:543-544) ends the tick.
DeliverNoEvent ==
    /\ lpc = "deliver"
    /\ ei <= Len(events)
    /\ enrich_event(events[ei], CurCfg) = <<>>
    /\ lpc' = except_clause
    /\ UNCHANGED <<groups, chainLen, chainBase, cursor, buys, group_cfgs, gi, tasks, events, ei,
                   channel_recent, clock, faults, hist>>
    /\ UNCHANGED not_poll

\* main.py:537: bot.send_message to the group raises; the tick ends.
DeliverGroupSendFail ==
    /\ lpc = "deliver"
    /\ ei <= Len(events)
    /\ enrich_event(events[ei], CurCfg) # <<>>
    /\ faults < MaxFaults
    /\ faults' = faults + 1
    /\ lpc' = except_clause
    /\ UNCHANGED <<groups, chainLen, chainBase, cursor, buys, group_cfgs, gi, tasks, events, ei,
                   channel_recent, clock, hist>>
    /\ UNCHANGED not_poll

\* main.py:537-541: the group post is sent, then the fingerprint is computed,
\* _channel_seen consulted and, for an unseen fingerprint, the channel post
\* attempted.
DeliverEvent ==
    /\ lpc = "deliver"
    /\ ei <= Len(events)
    /\ enrich_event(events[ei], CurCfg) # <<>>
    /\ LET ev == enrich_event(events[ei], CurCfg)[1]
           gid == CurCfg.group_id
           h1 == [hist EXCEPT !.groupPosts = post_buy_to_group(@, gid, ev),
                              !.tickOut = @ \cup {ev.pool}]
           fp == Fingerprint(ev)
           r == channel_seen(channel_recent, fp[1], now)
       IN IF fp = <<>>
          THEN /\ hist' = h1
               /\ lpc' = except_clause
               /\ UNCHANGED <<channel_recent, ei>>
          ELSE IF r.seen
          THEN /\ hist' = [h1 EXCEPT !.suppressed = @ \cup {<<gid, fp[1]>>}]
               /\ channel_recent' = r.recent
               /\ ei' = ei + 1
               /\ lpc' = lpc
          ELSE IF ChannelDestRaises
          THEN /\ hist' = [h1 EXCEPT !.channelTries = Append(@, <<fp[1], now>>)]
               /\ channel_recent' = r.recent
               /\ lpc' = except_clause
               /\ ei' = ei
          ELSE /\ hist' = [h1 EXCEPT !.channelTries = Append(@, <<fp[1], now>>),
                                     !.channelPosts = Append(@, <<fp[1], now>>)]
               /\ channel_recent' = r.recent
               /\ ei' = ei + 1
               /\ lpc' = lpc
    /\ UNCHANGED <<groups, chainLen, chainBase, cursor, buys, group_cfgs, gi, tasks, events,
                   clock, faults>>
    /\ UNCHANGED not_poll

\* main.py:526: the next configuration.
NextGroup ==
    /\ lpc = "deliver"
    /\ ei > Len(events)
    /\ gi' = gi + 1
    /\ lpc' = "next"
    /\ UNCHANGED <<groups, chainLen, chainBase, cursor, buys, group_cfgs, tasks, events, ei,
                   channel_recent, clock, faults, hist>>
    /\ UNCHANGED not_poll

\* main.py:526: the configurations are exhausted.
LoopEnd ==
    /\ lpc = "next"
    /\ gi > Len(group_cfgs)
    /\ lpc' = "sleep"
    /\ UNCHANGED <<groups, chainLen, chainBase, cursor, buys, group_cfgs, gi, tasks, events, ei,
                   channel_recent, clock, faults, hist>>
    /\ UNCHANGED not_poll

\* main.py:546: time passes in asyncio.sleep.  The clock is read only to
\* stamp and to age the entries of _channel_recent (main.py:31, 36), so its
\* steps are taken only while there is an entry.
TimePasses ==
    /\ lpc = "sleep"
    /\ channel_recent # <<>>
    /\ clock < MaxClock
    /\ clock' = clock + 1
    /\ UNCHANGED <<groups, chainLen, chainBase, cursor, buys, lpc, group_cfgs, gi, tasks, events,
                   ei, channel_recent, faults, hist>>
    /\ UNCHANGED not_poll

\* main.py:546 back to main.py:521
Sleep ==
    /\ lpc = "sleep"
    /\ lpc' = "top"
    /\ events' = <<>>
    /\ ei' = 0
    /\ gi' = 0
    /\ UNCHANGED <<groups, chainLen, chainBase, cursor, buys, group_cfgs, tasks,
                   channel_recent, clock, faults, hist>>
    /\ UNCHANGED not_poll

Next ==
    \/ TickStart
    \/ PollGroupStart
    \/ \E d \in 1..2 : GetCursor(d)
    \/ \E d \in 1..2 : FetchOk(d)
    \/ \E d \in 1..2 : FetchFail(d)
    \/ \E d \in 1..2 : ProcessTx(d)
    \/ \E d \in 1..2 : ProcessFail(d)
    \/ \E d \in 1..2 : SetCursor(d)
    \/ GatherDone
    \/ DeliverNoEvent
    \/ DeliverGroupSendFail
    \/ DeliverEvent
    \/ NextGroup
    \/ LoopEnd
    \/ TimePasses
    \/ Sleep

Spec == Init /\ [][Next]_vars

\* -------------------------------------------------------------- leaderboard
\* Text is a sequence of characters; an optional text is <<>> (None, NULL)
\* or <<text>>.
Null == <<>>
Opt(x) == <<x>>
TOKEN == <<"T", "O", "K", "E", "N">>
UNKNOWN == <<"U", "N", "K", "N", "O", "W", "N">>

\* utils.py:18: the characters the pattern [^A-Za-z0-9_$] lets through
\* (those of them that occur here).
SymbolChars ==
    {"A", "B", "E", "J", "K", "N", "O", "T", "1", "2", "_", "$",
     "a", "b", "c", "d", "e", "f", "g", "h", "i", "j", "k", "l", "m", "n", "o", "p"}

\* utils.py:16-19: strip, drop every other character (white space included),
\* keep the first SymbolMax, "TOKEN" when nothing is left.
safe_symbol(sym) ==
    LET kept == SelectSeq(sym, LAMBDA c : c \in SymbolChars)
    IN IF kept = <<>> THEN TOKEN
       ELSE SubSeq(kept, 1, IF Len(kept) < SymbolMax THEN Len(kept) ELSE SymbolMax)

\* Token settings of the groups whose buys are persisted (groups table,
\* db.py:13-14).  /addtoken <SYMBOL> <JETTON> stores both (main.py:158-160);
\* /addtoken <JETTON> stores the symbol only when the metrics have one
\* (main.py:120-124).
TokenCfg(sym, jetton) == [token_symbol |-> sym, jetton_address |-> jetton]
RankCfgs ==
    (1 :> TokenCfg(Opt(<<"A">>), Opt(<<"J", "A">>)))
    @@ (2 :> TokenCfg(Null, Opt(<<"J", "1">>)))
    @@ (3 :> TokenCfg(Null, Opt(<<"J", "2">>)))

\* Sixteen further groups, each with a symbol of its own, whose buys an
\* earlier run persisted: one buy each, of 1 to 16 dollars.
CrowdLetters ==
    <<"a", "b", "c", "d", "e", "f", "g", "h", "i", "j", "k", "l", "m", "n", "o", "p">>

\* pool_watcher.py:86: sym = safe_symbol(cfg.token_symbol or "TOKEN"), the
\* token_symbol of every row the poller writes (pool_watcher.py:169).
PersistedSymbol(c) ==
    Opt(safe_symbol(IF c.token_symbol # Null /\ c.token_symbol[1] # <<>>
                    THEN c.token_symbol[1] ELSE TOKEN))

\* pool_watcher.py:165-177: the row add_buy inserts (the columns the
\* leaderboard query reads, and group_id).
BuyRow(g, c, usd, t) ==
    [ts |-> t, group_id |-> g, token_symbol |-> PersistedSymbol(c),
     jetton_address |-> c.jetton_address, usd_amount |-> usd]

CrowdRows ==
    {BuyRow(100 + j, TokenCfg(Opt(<<"K", CrowdLetters[j]>>), Null), Num(j), 0) :
        j \in 1..Len(CrowdLetters)}

\* The buys that arrive, as <<group, usd_amount>> (pool_watcher.py:140-148:
\* the amount is a number or None): two buys of one token and buys of two
\* tokens without a symbol; equal volumes with different counts; unknown
\* amounts.
BuyFeeds ==
    {<<<<1, Num(100)>>, <<1, Num(50)>>, <<2, Num(80)>>, <<3, Num(100)>>>>,
     <<<<2, Num(50)>>, <<3, Num(50)>>, <<1, Num(100)>>, <<1, NoNum>>>>,
     <<<<1, NoNum>>, <<2, NoNum>>, <<1, Num(50)>>, <<3, NoNum>>>>}

\* leaderboard.py:14
window_seconds == WindowMinutes * 60
lb_now == lb_clock * window_seconds

\* Every row is inside the window.
InWindowAll(r, t) == TRUE

\* db.py:128  WHERE ts >= strftime('%s','now') - ?
InWindow(r, t) == r.ts >= t - window_seconds

\* db.py:124  COALESCE(token_symbol, jetton_address, 'UNKNOWN')
KeyOfRow(r) ==
    IF r.token_symbol # Null THEN r.token_symbol[1]
    ELSE IF r.jetton_address # Null THEN r.jetton_address[1]
    ELSE UNKNOWN

\* db.py:125  COALESCE(usd_amount, 0)
UsdOrZero(r) == IF r.usd_amount.some THEN r.usd_amount.v ELSE 0

\* db.py:125-126: SUM and COUNT(*) over the rows of a group (R is a set of
\* distinct rows, rows says how many copies of each the table holds).
RECURSIVE SumUsd(_, _)
SumUsd(R, rows) ==
    IF R = {} THEN 0
    ELSE LET r == CHOOSE x \in R : TRUE
         IN CopiesIn(r, rows) * UsdOrZero(r) + SumUsd(R \ {r}, rows)

RECURSIVE CountRows(_, _)
CountRows(R, rows) ==
    IF R = {} THEN 0
    ELSE LET r == CHOOSE x \in R : TRUE
         IN CopiesIn(r, rows) + CountRows(R \ {r}, rows)

\* db.py:123-129: one result row per key.
Grouped(rows, t) ==
    LET recent == {r \in BagToSet(rows) : InWindow(r, t)}
        of(k) == {r \in recent : KeyOfRow(r) = k}
    IN {[key |-> k, vol_usd |-> SumUsd(of(k), rows), buys |-> CountRows(of(k), rows)] :
           k \in {KeyOfRow(r) : r \in recent}}

\* db.py:130  ORDER BY vol_usd DESC, buys DESC
Before(a, b) == a.vol_usd > b.vol_usd \/ (a.vol_usd = b.vol_usd /\ a.buys > b.buys)

\* Every order of G that ORDER BY allows (rows that tie may come either way).
RECURSIVE Orders(_)
Orders(G) ==
    IF G = {} THEN {<<>>}
    ELSE UNION {{<<x>> \o o : o \in Orders(G \ {x})} :
                   x \in {y \in G : \A z \in G : ~Before(z, y)}}

\* db.py:121-135 as leaderboard.py:37 calls it: the lists the query can
\* return, LIMIT applied.
get_recent_leaderboard(rows, t) ==
    {SubSeq(o, 1, IF Len(o) < LeaderboardLimit THEN Len(o) ELSE LeaderboardLimit) :
        o \in Orders(Grouped(rows, t))}

\* The new ranks are written into the table that is there.
set_rank_map_merging(old, items) ==
    [k \in DOMAIN old \cup {items[i].key : i \in 1..Len(items)} |->
        IF \E i \in 1..Len(items) : items[i].key = k
        THEN CHOOSE i \in 1..Len(items) : items[i].key = k
        ELSE old[k]]

\* The table is left as it was while the message is delivered.
set_rank_map_deferred(old, items) == old

\* leaderboard.py:39: self.rank_map = {it["key"]: i for i, it in
\* enumerate(items, start=1)}, one assignment of a new dict.
set_rank_map(old, items) ==
    [k \in {items[i].key : i \in 1..Len(items)} |->
        CHOOSE i \in 1..Len(items) :
            items[i].key = k /\ \A j \in 1..Len(items) : items[j].key = k => j <= i]

\* Message ids Telegram hands out.
MsgIds == {1, 2}

\* leaderboard.py:32-34: the except clause of _run passes on to the sleep.
lb_except == "sleep"

\* The text is sent as a new message on every tick.
PostBranchAlwaysSends == "send"

\* leaderboard.py:42, 47: with no message_id the text is sent, else edited.
PostBranch == IF lb.message_id = 0 THEN "send" ELSE "edit"

\* leaderboard.py:37-42: the query returns, rank_map is replaced, the text
\* is rendered and message_id is tested.
LbQueryOk ==
    /\ lb.pc = "top"
    /\ \E items \in get_recent_leaderboard(lb_rows, lb_now) :
         rank_map' = set_rank_map(rank_map, items)
    /\ lb' = [lb EXCEPT !.pc = PostBranch]
    /\ UNCHANGED <<lb_rows, lb_feed, lb_clock, cmd, lb_log>>
    /\ UNCHANGED <<poll_vars, dedup_vars, metrics_vars>>

\* leaderboard.py:37: get_recent_leaderboard raises.
LbQueryFail ==
    /\ lb.pc = "top"
    /\ lb' = [lb EXCEPT !.pc = lb_except, !.raised = TRUE]
    /\ UNCHANGED <<poll_vars, dedup_vars, metrics_vars, rank_vars>>

\* leaderboard.py:42-45: no message yet; send_message returns a message.
LbFirstSendOk ==
    /\ lb.pc = "send"
    /\ \E id \in MsgIds :
         lb' = [lb EXCEPT !.pc = "sleep", !.message_id = id]
    /\ lb_log' = Logged(lb_log, "created")
    /\ UNCHANGED <<lb_rows, lb_feed, lb_clock, rank_map, cmd>>
    /\ UNCHANGED <<poll_vars, dedup_vars, metrics_vars>>

\* leaderboard.py:43: send_message raises.
LbFirstSendFail ==
    /\ lb.pc = "send"
    /\ lb' = [lb EXCEPT !.pc = lb_except, !.raised = TRUE]
    /\ UNCHANGED <<poll_vars, dedup_vars, metrics_vars, rank_vars>>

\* leaderboard.py:47-48: edit_message_text succeeds.
LbEditOk ==
    /\ lb.pc = "edit"
    /\ lb' = [lb EXCEPT !.pc = "sleep"]
    /\ lb_log' = Logged(lb_log, "kept")
    /\ UNCHANGED <<lb_rows, lb_feed, lb_clock, rank_map, cmd>>
    /\ UNCHANGED <<poll_vars, dedup_vars, metrics_vars>>

\* leaderboard.py:49: edit_message_text raises TelegramBadRequest.
LbEditBadRequest ==
    /\ lb.pc = "edit"
    /\ lb' = [lb EXCEPT !.pc = "resend"]
    /\ UNCHANGED <<poll_vars, dedup_vars, metrics_vars, rank_vars>>

\* leaderboard.py:48: edit_message_text raises another exception.
LbEditFail ==
    /\ lb.pc = "edit"
    /\ lb' = [lb EXCEPT !.pc = lb_except, !.raised = TRUE]
    /\ UNCHANGED <<poll_vars, dedup_vars, metrics_vars, rank_vars>>

\* leaderboard.py:50-51: the new message is sent and remembered.
LbResendOk ==
    /\ lb.pc = "resend"
    /\ \E id \in MsgIds \ {lb.message_id} :
         lb' = [lb EXCEPT !.pc = "sleep", !.message_id = id]
    /\ lb_log' = Logged(lb_log, "recreated")
    /\ UNCHANGED <<lb_rows, lb_feed, lb_clock, rank_map, cmd>>
    /\ UNCHANGED <<poll_vars, dedup_vars, metrics_vars>>

\* leaderboard.py:50: send_message raises inside the handler.
LbResendFail ==
    /\ lb.pc = "resend"
    /\ lb' = [lb EXCEPT !.pc = lb_except, !.raised = TRUE]
    /\ UNCHANGED <<poll_vars, dedup_vars, metrics_vars, rank_vars>>

\* leaderboard.py:34 back to leaderboard.py:29
LbSleep ==
    /\ lb.pc = "sleep"
    /\ lb' = [lb EXCEPT !.pc = "top"]
    /\ UNCHANGED <<poll_vars, dedup_vars, metrics_vars, rank_vars>>

LbNext ==
    \/ LbQueryOk
    \/ LbQueryFail
    \/ LbFirstSendOk
    \/ LbFirstSendFail
    \/ LbEditOk
    \/ LbEditBadRequest
    \/ LbEditFail
    \/ LbResendOk
    \/ LbResendFail
    \/ LbSleep

\* main.py:594 and leaderboard.py:26: the two background tasks side by side,
\* for two groups that watch different accounts.
\* The event-loop clock starts at an arbitrary value (loop.time() is monotonic
\* time, not time since the start): here one step before the last.
LoopsInit ==
    /\ ColdStart /\ groups = TableApart
    /\ lpc = "top"
    /\ group_cfgs = <<>>
    /\ gi = 0
    /\ tasks = [d \in 1..2 |-> IdleTask]
    /\ events = <<>>
    /\ ei = 0
    /\ channel_recent = <<>>
    /\ clock = MaxClock - 1
    /\ faults = 0
    /\ lb = LbStart
    /\ RankStart
    /\ seen_call = NoCall
    /\ MetricsStart

LoopsNext == Next \/ LbNext

LoopsSpec == LoopsInit /\ [][LoopsNext]_vars

\* ------------------------------------------- the leaderboard and the table
\* The rows the groups of RankCfgs have persisted.
OwnRows == {r \in BagToSet(lb_rows) : r.group_id \in DOMAIN RankCfgs}

\* pool_watcher.py:165-177: the poller persists the next buy.
AddBuy ==
    LET n == CountRows(OwnRows, lb_rows)
    IN /\ n < MaxRows /\ n < Len(lb_feed)
       /\ lb_rows' = lb_rows (+) SetToBag({BuyRow(lb_feed[n + 1][1], RankCfgs[lb_feed[n + 1][1]],
                                                  lb_feed[n + 1][2], lb_now)})
    /\ UNCHANGED <<lb, lb_feed, lb_clock, rank_map, cmd, lb_log>>
    /\ UNCHANGED <<poll_vars, dedup_vars, metrics_vars>>

\* Time passes.
LbTime ==
    /\ lb_clock < MaxClock
    /\ lb_clock' = lb_clock + 1
    /\ UNCHANGED <<lb, lb_rows, lb_feed, rank_map, cmd, lb_log>>
    /\ UNCHANGED <<poll_vars, dedup_vars, metrics_vars>>

\* main.py:357-360, 370-373: the owner sends /pinleaderboard or
\* /leaderboardnow; the handler calls lb.update_once() and waits for the
\* query.
CmdStart ==
    /\ cmd.pc = "idle"
    /\ cmd' = [cmd EXCEPT !.pc = "query"]
    /\ UNCHANGED <<lb, lb_rows, lb_feed, lb_clock, rank_map, lb_log>>
    /\ UNCHANGED <<poll_vars, dedup_vars, metrics_vars>>

\* leaderboard.py:37-42 in the handler's call.
CmdQueryOk ==
    /\ cmd.pc = "query"
    /\ \E items \in get_recent_leaderboard(lb_rows, lb_now) :
         rank_map' = set_rank_map(rank_map, items)
    /\ cmd' = [cmd EXCEPT !.pc = PostBranch]
    /\ UNCHANGED <<lb, lb_rows, lb_feed, lb_clock, lb_log>>
    /\ UNCHANGED <<poll_vars, dedup_vars, metrics_vars>>

\* leaderboard.py:42-45 in the handler's call.
CmdSendOk ==
    /\ cmd.pc = "send"
    /\ \E id \in MsgIds :
         lb' = [lb EXCEPT !.message_id = id]
    /\ cmd' = [cmd EXCEPT !.pc = "idle"]
    /\ lb_log' = Logged(lb_log, "created")
    /\ UNCHANGED <<lb_rows, lb_feed, lb_clock, rank_map>>
    /\ UNCHANGED <<poll_vars, dedup_vars, metrics_vars>>

\* leaderboard.py:47-48 in the handler's call.
CmdEditOk ==
    /\ cmd.pc = "edit"
    /\ cmd' = [cmd EXCEPT !.pc = "idle"]
    /\ lb_log' = Logged(lb_log, "kept")
    /\ UNCHANGED <<lb, lb_rows, lb_feed, lb_clock, rank_map>>
    /\ UNCHANGED <<poll_vars, dedup_vars, metrics_vars>>

\* leaderboard.py:49 in the handler's call.
CmdEditBadRequest ==
    /\ cmd.pc = "edit"
    /\ cmd' = [cmd EXCEPT !.pc = "resend"]
    /\ UNCHANGED <<lb, lb_rows, lb_feed, lb_clock, rank_map, lb_log>>
    /\ UNCHANGED <<poll_vars, dedup_vars, metrics_vars>>

\* leaderboard.py:50-51 in the handler's call.
CmdResendOk ==
    /\ cmd.pc = "resend"
    /\ \E id \in MsgIds \ {lb.message_id} :
         lb' = [lb EXCEPT !.message_id = id]
    /\ cmd' = [cmd EXCEPT !.pc = "idle"]
    /\ lb_log' = Logged(lb_log, "recreated")
    /\ UNCHANGED <<lb_rows, lb_feed, lb_clock, rank_map>>
    /\ UNCHANGED <<poll_vars, dedup_vars, metrics_vars>>

\* An await of update_once raises in the handler's call (leaderboard.py:37,
\* 43, 48, 50): the exception leaves the handler.
CmdRaise ==
    /\ cmd.pc \in {"query", "send", "edit", "resend"}
    /\ cmd' = [cmd EXCEPT !.pc = "idle"]
    /\ UNCHANGED <<lb, lb_rows, lb_feed, lb_clock, rank_map, lb_log>>
    /\ UNCHANGED <<poll_vars, dedup_vars, metrics_vars>>

\* The service next to the table it reads: the buys table is empty or holds
\* the rows of an earlier run.
RankInit ==
    /\ ColdStart /\ groups = TableApart
    /\ lpc = "top"
    /\ group_cfgs = <<>>
    /\ gi = 0
    /\ tasks = [d \in 1..2 |-> IdleTask]
    /\ events = <<>>
    /\ ei = 0
    /\ channel_recent = <<>>
    /\ clock = 0
    /\ faults = 0
    /\ lb = LbStart
    /\ lb_rows \in {EmptyBag, SetToBag(CrowdRows)}
    /\ lb_feed \in BuyFeeds
    /\ lb_clock = 0
    /\ rank_map = <<>>
    /\ cmd = [pc |-> "idle"]
    /\ lb_log = NoLog
    /\ seen_call = NoCall
    /\ MetricsStart

RankNext ==
    \/ LbNext
    \/ AddBuy
    \/ LbTime

RankSpec == RankInit /\ [][RankNext]_vars

\* The background task and a command handler side by side, while the first
\* feed arrives.
HandlerInit ==
    /\ ColdStart /\ groups = TableApart
    /\ lpc = "top"
    /\ group_cfgs = <<>>
    /\ gi = 0
    /\ tasks = [d \in 1..2 |-> IdleTask]
    /\ events = <<>>
    /\ ei = 0
    /\ channel_recent = <<>>
    /\ clock = 0
    /\ faults = 0
    /\ lb = LbStart
    /\ lb_rows = EmptyBag
    /\ lb_feed = <<<<1, Num(100)>>, <<1, Num(50)>>, <<2, Num(80)>>, <<3, Num(100)>>>>
    /\ lb_clock = 0
    /\ rank_map = <<>>
    /\ cmd = [pc |-> "idle"]
    /\ lb_log = NewLog
    /\ seen_call = NoCall
    /\ MetricsStart

HandlerNext ==
    \/ LbNext
    \/ AddBuy
    \/ CmdStart
    \/ CmdQueryOk
    \/ CmdSendOk
    \/ CmdEditOk
    \/ CmdEditBadRequest
    \/ CmdResendOk
    \/ CmdRaise

HandlerSpec == HandlerInit /\ [][HandlerNext]_vars

\* ------------------------------------------------ the cross-post on its own
\* main.py:539-541 applied to events handed in directly, at any time: the
\* same transaction reported under both exchanges, two transactions that
\* agree in exchange, pool and amount, and one without a hash.
DedupEvents == {MakeEvent(d, "P1", i) : d \in 1..2, i \in 4..6}

\* The composite of main.py:539 reads fields that BuyEvent lacks; the
\* fingerprint is then unavailable (<<>>).
\* seen_call.last: the event, the time, the map before the call, the key and
\* what happened; seen_call.by: for each entry the event that marked it;
\* seen_call.posts: the channel posts sent since the entry was marked.
CrossPost(ev) ==
    /\ lpc = "top"
    /\ LET fp == Fingerprint(ev)
           r == channel_seen(channel_recent, fp[1], now)
           tried == ~r.seen
           posted == tried /\ ~ChannelDestRaises
           call == [ev |-> ev, t |-> now, before |-> channel_recent, key |-> fp,
                    seen |-> fp # <<>> /\ r.seen,
                    tried |-> fp # <<>> /\ tried,
                    posted |-> fp # <<>> /\ posted]
       IN IF fp = <<>>
          THEN /\ seen_call' = [seen_call EXCEPT !.last = <<call>>]
               /\ UNCHANGED channel_recent
          ELSE /\ channel_recent' = r.recent
               /\ seen_call' =
                    [last |-> <<call>>,
                     by |-> [k \in DOMAIN r.recent |->
                                IF k = fp[1] /\ ~r.seen THEN ev ELSE seen_call.by[k]],
                     posts |-> [k \in DOMAIN r.recent |->
                                IF k # fp[1] THEN seen_call.posts[k]
                                ELSE IF r.seen THEN seen_call.posts[k]
                                ELSE IF posted THEN 1 ELSE 0]]
    /\ UNCHANGED <<groups, chainLen, chainBase, cursor, buys, lpc, group_cfgs, gi, tasks, events,
                   ei, clock, faults, hist>>
    /\ UNCHANGED <<lb_vars, metrics_vars>>

\* Time passes between two cross-posts.
CrossPostWait ==
    /\ lpc = "top"
    /\ clock < MaxClock
    /\ clock' = clock + 1
    /\ UNCHANGED <<groups, chainLen, chainBase, cursor, buys, lpc, group_cfgs, gi, tasks, events,
                   ei, channel_recent, faults, hist>>
    /\ UNCHANGED <<lb_vars, dedup_vars, metrics_vars>>

DedupInit == Init /\ ColdStart /\ groups = TableApart

DedupNext ==
    \/ \E ev \in DedupEvents : CrossPost(ev)
    \/ CrossPostWait

DedupSpec == DedupInit /\ [][DedupNext]_vars

\* ------------------------------------------------------------ metrics cache
\* The keys fetch_token_metrics is called with, and the data the sources
\* answer with (a version stands for the values of one answer).
Tokens == {"J"}
Versions == {1, 2}

\* metrics.py:37-40, 62-68, 70-71: the keys each source contributes.
ChainFields == {"holders", "symbol", "decimals"}
PairFields == {"price_usd", "liquidity_usd", "mcap_usd", "dex_url", "best_pair_address"}
PoolFields == {"stonfi_pool"}

mnow == m_clock * MetricsTtl

\* A dict; dict.update with the keys flds set to v.
EmptyDict == <<>>
Update(d, flds, v) == [f \in DOMAIN d \cup flds |-> IF f \in flds THEN v ELSE d[f]]

\* Python truth of a dict.
Truthy(d) == DOMAIN d # {}

\* metrics.py:13-20: <<val>>, or <<>> for None.
cache_get(cache, key, t) ==
    IF key \notin DOMAIN cache THEN <<>>
    ELSE IF t - cache[key].ts > MetricsTtl THEN <<>>
    ELSE <<cache[key].val>>

cache_set_merging(cache, key, val, t) ==
    [k \in DOMAIN cache \cup {key} |->
        IF k # key THEN cache[k]
        ELSE [ts |-> t,
              val |-> [f \in DOMAIN val \cup (IF key \in DOMAIN cache THEN DOMAIN cache[key].val ELSE {}) |->
                          IF f \in DOMAIN val THEN val[f] ELSE cache[key].val[f]]]]

\* metrics.py:22-23
cache_set(cache, key, val, t) ==
    [k \in DOMAIN cache \cup {key} |-> IF k = key THEN [ts |-> t, val |-> val] ELSE cache[k]]

\* The fetch of caller d has missed the cache and has not written yet.
InFlight(d) == m_tasks[d].pc \in {"jetton", "pairs", "latest"}

\* metrics.py:25-30: the cache is consulted; a cached value that is true is
\* returned, otherwise the fetch begins with an empty out.  overlap records that
\* another fetch for the same key was under way at some moment of this one.
MStart(c) ==
    /\ m_tasks[c].pc = "idle"
    /\ \E key \in Tokens :
         LET cached == cache_get(m_cache, key, mnow)
             hit == cached # <<>> /\ Truthy(cached[1])
             rival(d) == ~hit /\ InFlight(d) /\ m_tasks[d].key = key
         IN m_tasks' = [d \in Callers |->
               IF d # c THEN [m_tasks[d] EXCEPT !.overlap = @ \/ rival(d)]
               ELSE IF hit
               THEN [IdleFetch EXCEPT !.pc = "done", !.key = key, !.ret = cached[1], !.hit = TRUE]
               ELSE [IdleFetch EXCEPT !.pc = "jetton", !.key = key, !.out = EmptyDict,
                                      !.overlap = \E e \in Callers \ {c} : rival(e)]]
    /\ UNCHANGED <<m_cache, m_clock, m_hist>>
    /\ UNCHANGED <<poll_vars, lb_vars, dedup_vars>>

jetton_except_reraises(t) == [t EXCEPT !.pc = "raised", !.chain = "fail", !.calls = @ + 1]

\* metrics.py:40-41: the exception of the jetton block is passed over.
jetton_except(t) == [t EXCEPT !.pc = "pairs", !.chain = "fail", !.calls = @ + 1]

\* metrics.py:34-42: tonapi.get_jetton answers, raises, or answers with a body
\* whose metadata cannot be read (holders is set, then the block raises).
MJetton(c) ==
    /\ m_tasks[c].pc = "jetton"
    /\ LET t == m_tasks[c]
       IN \/ m_tasks' = [m_tasks EXCEPT ![c] = jetton_except(t)]
          \/ \E v \in Versions :
                m_tasks' = [m_tasks EXCEPT ![c] =
                    [jetton_except(t) EXCEPT !.out = Update(t.out, {"holders"}, v),
                                             !.chain = "partial"]]
          \/ \E v \in Versions :
                m_tasks' = [m_tasks EXCEPT ![c] =
                    [t EXCEPT !.pc = "pairs", !.out = Update(t.out, ChainFields, v),
                              !.chain = "ok", !.calls = @ + 1]]
    /\ UNCHANGED <<m_cache, m_clock, m_hist>>
    /\ UNCHANGED <<poll_vars, lb_vars, dedup_vars>>

\* metrics.py:58-73: no await from here on.  data is <<v>> for an answer
\* with pairs, <<>> for None or an answer without pairs: the best pair and
\* the pools are read, the snapshot is stored and returned.
Finish(c, data, how) ==
    LET t == m_tasks[c]
        out == IF data = <<>> THEN t.out
               ELSE Update(Update(t.out, PairFields, data[1]), PoolFields, data[1])
    IN /\ m_tasks' = [m_tasks EXCEPT ![c] =
              [t EXCEPT !.pc = "done", !.out = out, !.ret = out, !.market = how,
                        !.calls = @ + 1]]
       /\ m_cache' = cache_set(m_cache, t.key, out, mnow)
       /\ m_hist' = [k \in DOMAIN m_hist \cup {t.key} |-> IF k = t.key THEN out ELSE m_hist[k]]

\* metrics.py:45-49: ds.get_token_pairs raises or answers None or []: the
\* older endpoint is asked next.
MPairsNoData(c) ==
    /\ m_tasks[c].pc = "pairs"
    /\ m_tasks' = [m_tasks EXCEPT ![c].pc = "latest", ![c].calls = @ + 1]
    /\ UNCHANGED <<m_cache, m_clock, m_hist>>
    /\ UNCHANGED <<poll_vars, lb_vars, dedup_vars>>

\* metrics.py:45-47, 58-73: ds.get_token_pairs answers with pairs.
MPairsData(c) ==
    /\ m_tasks[c].pc = "pairs"
    /\ \E v \in Versions : Finish(c, <<v>>, "ok")
    /\ UNCHANGED m_clock
    /\ UNCHANGED <<poll_vars, lb_vars, dedup_vars>>

\* metrics.py:51-73: ds.get_token_latest raises, answers None, answers a body
\* without pairs, or answers with pairs.
MLatest(c) ==
    /\ m_tasks[c].pc = "latest"
    /\ \/ Finish(c, <<>>, "fail")
       \/ Finish(c, <<>>, "nopairs")
       \/ \E v \in Versions : Finish(c, <<v>>, "ok")
    /\ UNCHANGED m_clock
    /\ UNCHANGED <<poll_vars, lb_vars, dedup_vars>>

\* The caller has its result (metrics.py:28, 74) or the exception.
MReturn(c) ==
    /\ m_tasks[c].pc \in {"done", "raised"}
    /\ m_tasks' = [m_tasks EXCEPT ![c] = IdleFetch]
    /\ UNCHANGED <<m_cache, m_clock, m_hist>>
    /\ UNCHANGED <<poll_vars, lb_vars, dedup_vars>>

\* time.time() advances.
MTime ==
    /\ m_clock < MaxClock
    /\ m_clock' = m_clock + 1
    /\ UNCHANGED <<m_cache, m_tasks, m_hist>>
    /\ UNCHANGED <<poll_vars, lb_vars, dedup_vars>>

MetricsInit == Init /\ ColdStart /\ groups = TableApart

MetricsNext ==
    \/ \E c \in Callers : MStart(c)
    \/ \E c \in Callers : MJetton(c)
    \/ \E c \in Callers : MPairsNoData(c)
    \/ \E c \in Callers : MPairsData(c)
    \/ \E c \in Callers : MLatest(c)
    \/ \E c \in Callers : MReturn(c)
    \/ MTime

MetricsSpec == MetricsInit /\ [][MetricsNext]_vars

\* ------------------------------------------------------------------ claims
\* Helpers of the statements below (not program code).
MaxOf(S) == CHOOSE x \in S : \A y \in S : y <= x
Lts(s) == [j \in 1..Len(s) |-> LtOf(s[j])]
Range(s) == {s[j] : j \in 1..Len(s)}
\* The step in which coroutine d writes the cursor and returns.
WriteStep(d) == tasks[d].pc = "loop" /\ tasks'[d].pc = "done"
\* The transactions of a response whose lt is above last_lt.
AboveCursor(t) == {x \in Range(t.fetched) : LtOf(x) > t.last_lt}
\* The enabled configurations that watch pool p.
Watchers(p) == {g \in Groups : groups[g].enabled /\ p \in {groups[g].stonfi_pool, groups[g].dedust_pool}}
\* The native amount of transaction i, in thousandths of a TON, when known.
Known(i) == ValueOf(i).k = "int"
MilliTon(i) == ValueOf(i).v \div 1000000
\* Transaction i is not below the minimum buy of group g.
Passes(g, i) == ~(Known(i) /\ MilliTon(i) < groups[g].min_buy_ton)
\* The polling loop is delivering an event that enrich_event returned.
Delivering == lpc = "deliver" /\ ei <= Len(events) /\ enrich_event(events[ei], CurCfg) # <<>>

\* C1: for every pool the persisted cursor never decreases, whatever the
\* interleaving of the polls.
C1_CursorNeverDecreases == [][\A p \in Pools : cursor'[p] >= cursor[p]]_vars

\* C2: a fingerprint reaches the channel post (main.py:541) at most once while
\* its dedup entry is live: two attempts for one fingerprint are more than
\* CHANNEL_DEDUPE_TTL seconds apart, and the channel receives nothing that was
\* not such an attempt.
C2_OneChannelPostPerLiveFingerprint ==
    /\ \A j \in 1..Len(hist.channelTries) : \A k \in 1..Len(hist.channelTries) :
          (j < k /\ hist.channelTries[j][1] = hist.channelTries[k][1])
              => hist.channelTries[k][2] - hist.channelTries[j][2] > CHANNEL_DEDUPE_TTL
    /\ Range(hist.channelPosts) \subseteq Range(hist.channelTries)
    /\ \A j \in 1..Len(hist.channelPosts) : \A k \in 1..Len(hist.channelPosts) :
          (j < k /\ hist.channelPosts[j][1] = hist.channelPosts[k][1])
              => hist.channelPosts[k][2] - hist.channelPosts[j][2] > CHANNEL_DEDUPE_TTL

\* A fingerprint that was marked arrived again while live and was suppressed.
C2_Witness ==
    \E x \in hist.suppressed :
        /\ x[2] \in DOMAIN channel_recent
        /\ \E j \in 1..Len(hist.channelTries) : hist.channelTries[j][1] = x[2]

\* C3: once a tick has polled every enabled configuration, a transaction the
\* cursor has passed, on a pool that two enabled configurations watch and
\* above both minimum buys, has been posted to each of the watching groups.
C3_SharedPoolReachesEachGroup ==
    (lpc = "sleep" /\ gi > Len(group_cfgs) /\ faults = 0) =>
        \A p \in Pools : \A i \in (chainBase[p] + 1)..chainLen[p] :
            (/\ Cardinality(Watchers(p)) = 2
             /\ cursor[p] >= LtOf(i)
             /\ \A g \in Watchers(p) : Passes(g, i))
                => \A g \in Watchers(p) : <<g, p, i>> \in Range(hist.groupPosts)

\* C4: a step that delivers an event whose fingerprint is live in the dedup
\* map sends the per-group post of that event (unless that send itself
\* fails); only the channel post is left out.
C4_GroupPostNotSuppressed ==
    /\ [](\A x \in hist.suppressed : <<x[1], x[2][1], x[2][2]>> \in Range(hist.groupPosts))
    /\ [][(/\ Delivering
           /\ Fingerprint(events[ei]) # <<>>
           /\ Fingerprint(events[ei])[1] \in DOMAIN Sweep(channel_recent, now)
           /\ faults' = faults)
            => /\ hist'.groupPosts = Append(hist.groupPosts,
                                            <<CurCfg.group_id, events[ei].pool, events[ei].idx>>)
               /\ hist'.channelTries = hist.channelTries
               /\ hist'.channelPosts = hist.channelPosts]_vars

\* An event with a live fingerprint was suppressed at the channel and its
\* group post was sent.
C4_Witness ==
    \E x \in hist.suppressed :
        /\ x[2] \in DOMAIN channel_recent
        /\ hist.groupPosts # <<>>
        /\ hist.groupPosts[Len(hist.groupPosts)] = <<x[1], x[2][1], x[2][2]>>
        /\ Len(hist.groupPosts) > 1

\* C5: when the tick is over, a pool whose fetch failed in it has the cursor
\* it had at the tick's start and no row or post of this tick, and every pool
\* whose fetch failed in the tick before has been fetched in this one.
C5_FetchFailureLeavesPoolForNextTick ==
    lpc = "sleep" =>
        /\ \A p \in hist.failFetch \ hist.okFetch :
              cursor[p] = hist.tickCursor[p] /\ p \notin hist.tickOut
        /\ hist.failPrev \subseteq hist.tried

\* C6: the step that ends a poll whose fetch returned a transaction above the
\* cursor leaves the cursor at the maximum logical time of that fetch, and a
\* poll with such a fetch that returned normally has taken that step, also
\* when a transaction of the batch produced no event.
C6_CursorEndsAtMaxFetched ==
    /\ [](\A d \in 1..2 :
            (tasks[d].pc = "done" /\ AboveCursor(tasks[d]) # {}) => tasks[d].wrote)
    /\ [][\A d \in 1..2 :
            WriteStep(d) => cursor'[tasks[d].pool] = MaxOf(LtSet(tasks[d].fetched))]_vars

\* A poll ended with the cursor at the maximum of its fetch although a
\* transaction of the batch was filtered out.
C6_Witness ==
    \E d \in 1..2 :
        /\ tasks[d].wrote
        /\ Len(tasks[d].out) < Len(tasks[d].new)
        /\ cursor[tasks[d].pool] = MaxOf(LtSet(tasks[d].fetched))

\* C7: one poll visits exactly the fetched transactions whose lt is strictly
\* above the cursor it read, in ascending lt order (a poll in progress has
\* visited the lowest ones); for the response 5,3,9,1 and cursor 3 it visits
\* 5 then 9 and writes 9.
C7_VisitsNewAscending ==
    /\ [](\A d \in 1..2 :
            LET t == tasks[d]
                seen == Range(t.visited)
            IN t.pc \in {"loop", "done", "failed"} =>
                 /\ seen \subseteq AboveCursor(t)
                 /\ \A j \in 1..Len(t.visited) : \A k \in 1..Len(t.visited) :
                        j < k => LtOf(t.visited[j]) < LtOf(t.visited[k])
                 /\ \A x \in AboveCursor(t) \ seen : \A y \in seen : LtOf(y) < LtOf(x)
                 /\ t.wrote => seen = AboveCursor(t)
                 /\ (Lts(t.fetched) = <<5, 3, 9, 1>> /\ t.last_lt = 3 /\ t.wrote)
                        => Lts(t.visited) = <<5, 9>>)
    /\ [][\A d \in 1..2 :
            (WriteStep(d) /\ Lts(tasks[d].fetched) = <<5, 3, 9, 1>> /\ tasks[d].last_lt = 3)
                => cursor'[tasks[d].pool] = 9]_vars

\* The response 5,3,9,1 was polled with cursor 3: 5 then 9 were visited and
\* the cursor is 9.
C7_Witness ==
    \E d \in 1..2 :
        /\ Lts(tasks[d].fetched) = <<5, 3, 9, 1>>
        /\ tasks[d].last_lt = 3
        /\ tasks[d].wrote
        /\ Lts(tasks[d].visited) = <<5, 9>>
        /\ cursor[tasks[d].pool] = 9

\* C8: no row of the buys table, no event returned by a poll and no group
\* post of a configuration carries a known native amount below that
\* configuration's min_buy_ton, and the step that ends a poll leaves the
\* cursor at or above the lt of every transaction of the batch, the
\* filtered ones included.
C8_MinBuyFiltersButCursorAdvances ==
    /\ [](/\ \A k \in BuyKeys : buys[k] > 0 => Passes(k[1], k[4])
          /\ \A x \in Range(hist.groupPosts) : Passes(x[1], x[3])
          /\ \A d \in 1..2 : \A ev \in Range(tasks[d].out) :
                ~(ev.ton_amount.some /\ ev.ton_amount.v < CurCfg.min_buy_ton)
          /\ (lpc = "deliver" => \A ev \in Range(events) :
                ~(ev.ton_amount.some /\ ev.ton_amount.v < CurCfg.min_buy_ton)))
    /\ [][\A d \in 1..2 :
            WriteStep(d) => \A x \in Range(tasks[d].new) : cursor'[tasks[d].pool] >= LtOf(x)]_vars

\* A poll of a configuration with a minimum buy filtered a transaction out
\* (no row, no event) and wrote a cursor that is past it.
C8_Witness ==
    \E d \in 1..2 : \E x \in Range(tasks[d].visited) :
        /\ tasks[d].wrote
        /\ CurCfg.min_buy_ton > 0
        /\ ~Passes(CurCfg.group_id, x)
        /\ \A ev \in Range(tasks[d].out) : ev.idx # x
        /\ buys[<<CurCfg.group_id, d, tasks[d].pool, x>>] = 0
        /\ cursor[tasks[d].pool] >= LtOf(x)

\* C9: the cursor of a pool changes only in the step that ends a poll of it
\* whose loop has visited the whole batch and persisted every event of it; a
\* poll that stops part-way does not write, and the next poll of that pool
\* for the same configuration, in a later tick, reads the cursor that the
\* stopped poll had read.
C9_CursorWrittenAfterWholeBatch ==
    /\ [][\A p \in Pools : cursor'[p] # cursor[p] =>
            \E d \in 1..2 :
                /\ WriteStep(d) /\ tasks[d].pool = p
                /\ Range(tasks[d].visited) = Range(tasks[d].new)
                /\ \A x \in Range(tasks[d].new) :
                      Passes(CurCfg.group_id, x) => buys[<<CurCfg.group_id, d, p, x>>] > 0]_vars
    /\ [][\A d \in 1..2 : (tasks[d].pc = "loop" /\ tasks'[d].pc = "failed") => cursor' = cursor]_vars
    /\ [](\A d \in 1..2 : tasks[d].pc = "failed" => ~tasks[d].wrote)
    /\ [][\A d \in 1..2 :
            (tasks[d].pc = "start" /\ tasks'[d].pc = "fetch" /\ Retries(d))
                => tasks'[d].last_lt = hist.partial[1].last_lt]_vars

\* C10: the cursor of a pool is 0 or the lt of a transaction that a successful
\* fetch of that pool returned.
C10_CursorIsReturnedLt ==
    \A p \in Pools : cursor[p] = 0 \/ cursor[p] \in hist.returned[p]

\* A poll of this tick moved the cursor to an lt its fetch returned.
C10_Witness ==
    \E p \in Pools :
        /\ p \in hist.okFetch
        /\ cursor[p] # hist.tickCursor[p]
        /\ cursor[p] \in hist.returned[p]

\* A poll of the current configuration has failed: its fetch raised or its
\* processing stopped with an exception.
Failed(d) == tasks[d].pc = "failed" \/ (tasks[d].pc = "done" /\ tasks[d].fetch_raised)

\* C11: when one pool's poll of a configuration has failed, the poll of the
\* configuration's other pool can still take its next step (read the cursor,
\* fetch, process, write the cursor), and poll_group returns the events of
\* the poll that completed.
C11_PoolFailureLeavesOtherPool ==
    /\ [](\A d \in 1..2 : \A o \in 1..2 :
            (lpc = "poll" /\ d # o /\ Failed(d)) =>
                /\ tasks[o].pc = "start" => ENABLED GetCursor(o)
                /\ tasks[o].pc = "fetch" => ENABLED FetchOk(o)
                /\ tasks[o].pc = "loop" => ENABLED (ProcessTx(o) \/ SetCursor(o)))
    /\ [][\A d \in 1..2 : \A o \in 1..2 :
            (lpc = "poll" /\ lpc' # "poll" /\ d # o /\ Failed(d) /\ tasks[o].pc = "done")
                => (lpc' = "deliver" /\ events' = tasks[o].out)]_vars

\* The poll of one pool failed; the poll of the configuration's other pool
\* was fetched, produced an event and advanced its cursor.
C11_Witness ==
    \E d \in 1..2 : \E o \in 1..2 :
        /\ lpc = "poll" /\ d # o /\ Failed(d)
        /\ tasks[o].pool # tasks[d].pool
        /\ tasks[o].wrote /\ tasks[o].out # <<>>
        /\ cursor[tasks[o].pool] = MaxOf(LtSet(tasks[o].fetched))
        /\ cursor[tasks[o].pool] > hist.tickCursor[tasks[o].pool]

\* C12: when a tick is over, every enabled configuration read at its start
\* has been polled, whatever failed while an earlier one was handled.
C12_ConfigFailureLeavesOtherConfigs ==
    lpc = "sleep" => gi >= Len(group_cfgs)

\* C13: neither loop stops because a tick raised: the exception of a poll
\* tick or of a leaderboard tick takes the loop to its sleep, from the sleep
\* the loop goes on to a further tick, and neither loop is ever stopped.
C13_LoopsSurviveTickFailure ==
    /\ [](lpc # "stopped" /\ lb.pc # "stopped")
    /\ [](lpc = "sleep" => ENABLED Sleep)
    /\ [](lpc = "top" => ENABLED TickStart)
    /\ [](lb.pc = "sleep" => ENABLED LbSleep)
    /\ [](lb.pc = "top" => ENABLED LbQueryOk)
    /\ [][(lpc = "deliver" /\ lpc' \notin {"deliver", "next"}) => lpc' = "sleep"]_vars
    /\ [][(lb'.raised /\ ~lb.raised) => lb'.pc = "sleep"]_vars

\* Both loops are in a further tick after a tick of theirs raised: the
\* poller is polling again after the channel post raised, the leaderboard is
\* posting again after an exception.
C13_Witness ==
    /\ hist.channelTries # <<>> /\ lpc = "poll"
    /\ lb.raised /\ lb.pc \in {"send", "edit"}

\* The last cross-post, when its event had a fingerprint.
Called == seen_call.last # <<>> /\ seen_call.last[1].key # <<>>
LastCall == seen_call.last[1]
LastKey == seen_call.last[1].key[1]
\* The entry of key k in map m was live at time t.
LiveIn(m, k, t) == k \in DOMAIN m /\ t - m[k] <= CHANNEL_DEDUPE_TTL
\* Two events agree in exchange, pool and amounts.
SameTrade(a, b) == a.dex = b.dex /\ a.pool = b.pool /\ a.ton_amount = b.ton_amount

\* C14: a call for a fingerprint with a live entry returns true and leaves
\* the entry's timestamp as it was; any other call returns false and leaves
\* the fingerprint in the map with the time of the call.
C14_SeenOrMark ==
    Called =>
        IF LiveIn(LastCall.before, LastKey, LastCall.t)
        THEN LastCall.seen /\ LastKey \in DOMAIN channel_recent
                           /\ channel_recent[LastKey] = LastCall.before[LastKey]
        ELSE ~LastCall.seen /\ LastKey \in DOMAIN channel_recent
                            /\ channel_recent[LastKey] = LastCall.t

\* A call made after its fingerprint was marked, and while the entry was
\* live, returned true and left the earlier timestamp.
C14_Witness ==
    /\ Called /\ LastCall.seen
    /\ channel_recent[LastKey] < LastCall.t

\* C15: after a call made at time t no entry of the map is older than the
\* window at t, and a fingerprint presented with an expired entry is
\* reported new and marked again with t.
C15_SweepOnEveryCall ==
    Called =>
        /\ \A k \in DOMAIN channel_recent : LastCall.t - channel_recent[k] <= CHANNEL_DEDUPE_TTL
        /\ (LastKey \in DOMAIN LastCall.before /\ ~LiveIn(LastCall.before, LastKey, LastCall.t))
              => (~LastCall.seen /\ channel_recent[LastKey] = LastCall.t)

\* A fingerprint was presented with an expired entry and marked again, and
\* the expired entry of another fingerprint was discarded in the same call.
C15_Witness ==
    /\ Called /\ ~LastCall.seen
    /\ LastKey \in DOMAIN LastCall.before
    /\ LastCall.t - LastCall.before[LastKey] > CHANNEL_DEDUPE_TTL
    /\ \E k \in DOMAIN LastCall.before : k # LastKey /\ k \notin DOMAIN channel_recent

\* C16: the fingerprint of a cross-posted event is its transaction hash when
\* it has one and a composite of its other fields otherwise, and when an
\* event arrives whose hash is live, the channel has received exactly one
\* post for that hash.
C16_FingerprintAndOnePost ==
    seen_call.last # <<>> =>
        /\ LastCall.key # <<>>
        /\ LastCall.ev.tx_hash # NoHash => LastCall.key = <<LastCall.ev.tx_hash>>
        /\ LastCall.seen => seen_call.posts[LastKey] = 1

\* C17 as stated: an event that agrees in exchange, pool and amounts with
\* the event of a live entry is suppressed, whatever its transaction hash.
C17_StructuralDuplicateSuppressed ==
    Called =>
        ((\E k \in DOMAIN LastCall.before :
            /\ LiveIn(LastCall.before, k, LastCall.t)
            /\ SameTrade(seen_call.by[k], LastCall.ev)
            /\ k # LastKey)
         => LastCall.seen)

\* C17 amended: an event with a transaction hash is suppressed exactly when
\* an entry of that same hash is live; a live entry of an event with another
\* hash does not suppress it, even when the two agree in exchange, pool and
\* amounts: it goes on to the channel post.
C17_DistinctHashesNotDeduplicated ==
    Called =>
        /\ LastCall.seen <=> LiveIn(LastCall.before, LastCall.ev.tx_hash, LastCall.t)
        /\ LastCall.tried <=> ~LastCall.seen

\* An event was cross-posted while the entry of an event with another hash
\* and the same exchange, pool and amounts was live: it was not suppressed.
C17_Witness ==
    /\ Called /\ LastCall.tried
    /\ \E k \in DOMAIN LastCall.before :
          /\ k # LastKey
          /\ LiveIn(LastCall.before, k, LastCall.t)
          /\ k \in DOMAIN seen_call.by
          /\ SameTrade(seen_call.by[k], LastCall.ev)

\* The call of caller c begins in this step.
Begins(c) == m_tasks[c].pc = "idle" /\ m_tasks'[c].pc # "idle"

\* A fetch of caller c writes its snapshot in this step.
Completes(c) == m_tasks[c].pc \in {"pairs", "latest"} /\ m_tasks'[c].pc = "done"

\* The cache holds an entry for k that is within the TTL at time t.
Fresh(k, t) == k \in DOMAIN m_cache /\ t - m_cache[k].ts <= MetricsTtl

\* C18: a call made within the TTL of a prior completed fetch for the same
\* token issues zero outbound calls and returns the identical snapshot; a
\* call made after the TTL has expired (or with no entry) calls out afresh,
\* and a fetch that completes replaces the entry with its own snapshot.
C18_HitWithinTtlElseRefetch ==
    [][\A c \in Callers :
         /\ Begins(c) =>
              IF Fresh(m_tasks'[c].key, mnow)
              THEN /\ m_tasks'[c].pc = "done"
                   /\ m_tasks'[c].calls = 0
                   /\ m_tasks'[c].ret = m_cache[m_tasks'[c].key].val
              ELSE m_tasks'[c].pc = "jetton"
         /\ Completes(c) =>
              m_cache'[m_tasks[c].key] = [ts |-> mnow, val |-> m_tasks'[c].out]]_vars

\* The call of caller c has returned the snapshot it fetched itself.
Fetched(c) == m_tasks[c].pc = "done" /\ ~m_tasks[c].hit

\* C19: fetch_token_metrics never fails because a source fails: no call ends
\* with an exception; a fetch whose chain call failed and whose market call
\* answered carries the market fields, a fetch whose market calls failed or
\* had no data and whose chain call answered carries holders, symbol and
\* decimals; every fetch returns its snapshot and has stored it in the cache.
C19_SourcesAreBestEffort ==
    \A c \in Callers :
         /\ m_tasks[c].pc # "raised"
         /\ Fetched(c) =>
              LET t == m_tasks[c]
              IN /\ t.ret = t.out
                 /\ t.key \in DOMAIN m_cache
                 /\ (t.chain = "fail" /\ t.market = "ok") => PairFields \subseteq DOMAIN t.ret
                 /\ (t.chain = "ok" /\ t.market \in {"fail", "nopairs"}) =>
                        ChainFields \subseteq DOMAIN t.ret

\* One fetch lost the chain source and kept the market fields, the other lost
\* the market source and kept the chain fields; both returned and the cache
\* holds the snapshot of one of them.
C19_Witness ==
    /\ Fetched(1) /\ m_tasks[1].chain = "fail" /\ m_tasks[1].market = "ok"
    /\ PairFields \subseteq DOMAIN m_tasks[1].ret
    /\ Fetched(2) /\ m_tasks[2].chain = "ok" /\ m_tasks[2].market = "fail"
    /\ ChainFields \subseteq DOMAIN m_tasks[2].ret
    /\ m_tasks[1].key \in DOMAIN m_cache
    /\ m_cache[m_tasks[1].key].val \in {m_tasks[1].ret, m_tasks[2].ret}

\* C20: the cache entry of a key is at every moment exactly the complete
\* snapshot of the fetch for that key that finished last, also when two
\* fetches for the key ran concurrently; no entry mixes fields of two fetches.
C20_LastWriterWinsWhole ==
    \A k \in DOMAIN m_cache : k \in DOMAIN m_hist /\ m_cache[k].val = m_hist[k]

\* Two fetches for one key overlapped, both missed and called out, both have
\* completed with different snapshots, each with fields the other lacks, and
\* the entry is the snapshot of the one that finished last.
C20_Witness ==
    /\ Fetched(1) /\ Fetched(2)
    /\ m_tasks[1].overlap /\ m_tasks[2].overlap
    /\ m_tasks[1].key = m_tasks[2].key
    /\ DOMAIN m_tasks[1].out \ DOMAIN m_tasks[2].out # {}
    /\ DOMAIN m_tasks[2].out \ DOMAIN m_tasks[1].out # {}
    /\ m_cache[m_tasks[1].key].val = m_hist[m_tasks[1].key]
    /\ m_cache[m_tasks[1].key].val \in {m_tasks[1].out, m_tasks[2].out}

\* The rows of the table with a timestamp inside the trailing window at time
\* t, their token keys, and the volume and the buy count of a key.
Recent(t) == {r \in BagToSet(lb_rows) : t - r.ts <= WindowMinutes * 60}
RecentKeys(t) == {KeyOfRow(r) : r \in Recent(t)}
VolumeOf(k, t) == SumUsd({r \in Recent(t) : KeyOfRow(r) = k}, lb_rows)
BuysOf(k, t) == CountRows({r \in Recent(t) : KeyOfRow(r) = k}, lb_rows)
Outranks(j, k, t) ==
    \/ VolumeOf(j, t) > VolumeOf(k, t)
    \/ VolumeOf(j, t) = VolumeOf(k, t) /\ BuysOf(j, t) > BuysOf(k, t)

\* m is a reference ranking of the table at time t.
IsReferenceRanking(m, t) ==
    LET n == IF Cardinality(RecentKeys(t)) < LeaderboardLimit
             THEN Cardinality(RecentKeys(t)) ELSE LeaderboardLimit
    IN /\ DOMAIN m \subseteq RecentKeys(t)
       /\ Cardinality(DOMAIN m) = n
       /\ {m[k] : k \in DOMAIN m} = 1..n
       /\ \A k \in DOMAIN m : \A j \in RecentKeys(t) :
             (j \notin DOMAIN m \/ m[k] < m[j]) => ~Outranks(j, k, t)

\* A tick of the aggregator publishes in this step.
Publishes == lb.pc = "top" /\ lb'.pc \in {"send", "edit"}

\* C21: on each aggregation tick the published Rank Table equals the
\* reference ranking: over the rows inside the trailing window only, grouped
\* by token key, USD amounts summed with unknown amounts as zero and the row
\* still counted, ordered by volume descending then buy count descending, at
\* most 15 kept, ranks 1..n by position.
C21_RankTableIsReferenceRanking ==
    [][(Publishes \/ rank_map' # rank_map) => IsReferenceRanking(rank_map', lb_now)]_vars

\* Buys of $100 and $50 under one key and of $80 under another are in the
\* window, sixteen older buys are in the table and outside the window, and
\* the table just published ranks the first key 1 and the second 2.
C21_Witness ==
    /\ lb.pc \in {"send", "edit"}
    /\ \E r \in BagToSet(lb_rows) : r \notin Recent(lb_now)
    /\ RecentKeys(lb_now) = {<<"A">>, TOKEN}
    /\ VolumeOf(<<"A">>, lb_now) = 150 /\ BuysOf(<<"A">>, lb_now) = 2
    /\ VolumeOf(TOKEN, lb_now) = 80
    /\ rank_map = (<<"A">> :> 1) @@ (TOKEN :> 2)

\* The token key of a configuration: its symbol if known, else its token
\* contract address, else the placeholder.
TokenKey(c) ==
    IF c.token_symbol # Null THEN c.token_symbol[1]
    ELSE IF c.jetton_address # Null THEN c.jetton_address[1]
    ELSE UNKNOWN

\* C22: the events the poller persists are aggregated under the symbol only
\* when the configuration has one, under the token contract address when it
\* has none (two symbol-less tokens make two rows of the leaderboard), under
\* UNKNOWN only when neither is known.
C22_AggregatedUnderTokenKey ==
    \A r \in OwnRows : KeyOfRow(r) = TokenKey(RankCfgs[r.group_id])

\* The table that numbers a list of result rows by position.
NumberedFrom(items) ==
    [k \in {items[i].key : i \in 1..Len(items)} |->
        CHOOSE i \in 1..Len(items) : items[i].key = k]

\* C23: the Rank Table readers see is always a complete ranking: its ranks
\* are exactly 1..n with n at most 15, no two keys share a rank; and it only
\* ever changes to the whole ranking one query has returned, never to a
\* mixture of two.
C23_RankTableIsOneWholeRanking ==
    /\ [](/\ {rank_map[k] : k \in DOMAIN rank_map} = 1..Cardinality(DOMAIN rank_map)
          /\ Cardinality(DOMAIN rank_map) <= LeaderboardLimit)
    /\ [][rank_map' # rank_map =>
            \E items \in get_recent_leaderboard(lb_rows, lb_now) :
                rank_map' = NumberedFrom(items)]_vars

\* Between two ticks a reader sees the full table of fifteen ranks that the
\* last tick published, led by a key of this run, although a buy persisted
\* since has changed the ranking.
C23_Witness ==
    /\ lb.pc = "sleep"
    /\ Cardinality(DOMAIN rank_map) = LeaderboardLimit
    /\ <<"A">> \in DOMAIN rank_map /\ rank_map[<<"A">>] = 1
    /\ ~IsReferenceRanking(rank_map, lb_now)

\* A call of update_once completes a send_message in this step.
SendCompletes ==
    \/ lb.pc \in {"send", "resend"} /\ lb'.pc = "sleep"
    \/ cmd.pc \in {"send", "resend"} /\ cmd'.pc = "idle"

\* C24: the leaderboard message goes Uninitialized -> HasMessage(id): a tick
\* that finds no id sends a message and its success leaves an id; a tick
\* that finds an id edits in place and the edit leaves the id as it is; only
\* the edit's "bad request" leads to a new message, whose success leaves the
\* new id; the id changes in no other step and never goes back to none.
C24_MessageStateMachine ==
    /\ [][lb.message_id # 0 => lb'.message_id # 0]_vars
    /\ [][lb'.message_id # lb.message_id => SendCompletes]_vars
    /\ [][(lb.pc = "top" /\ lb'.pc \notin {"top", "sleep"}) =>
             lb'.pc = (IF lb.message_id = 0 THEN "send" ELSE "edit")]_vars
    /\ [][(cmd.pc = "query" /\ cmd'.pc \notin {"query", "idle"}) =>
             cmd'.pc = (IF lb.message_id = 0 THEN "send" ELSE "edit")]_vars
    /\ [][(lb'.pc = "resend" /\ lb.pc # "resend") => lb.pc = "edit"]_vars
    /\ [][(cmd'.pc = "resend" /\ cmd.pc # "resend") => cmd.pc = "edit"]_vars
    /\ [][LbFirstSendOk \/ LbResendOk \/ CmdSendOk \/ CmdResendOk => lb'.message_id # 0]_vars
    /\ [][LbEditOk \/ CmdEditOk => lb'.message_id = lb.message_id]_vars
    /\ [](lb.pc = "send" => ENABLED LbFirstSendOk)
    /\ [](lb.pc = "edit" => ENABLED LbEditOk /\ ENABLED LbEditBadRequest)
    /\ [](lb.pc = "resend" => ENABLED LbResendOk)

\* A message was created when none was held, a later edit kept it, a later
\* one was refused and a new message took its place; its id is held and the
\* aggregator sleeps until its next tick.
C24_Witness ==
    /\ lb_log.created /\ lb_log.kept /\ lb_log.recreated
    /\ lb.message_id # 0
    /\ lb.pc = "sleep" /\ cmd.pc = "idle"

\* C29: the Rank Table has one writer, the aggregator's background task: no
\* two runs of update_once overlap, so no two runs both publish a table or
\* both create a leaderboard message.
C29_AggregationRunsNeverOverlap ==
    ~(lb.pc \in {"send", "edit", "resend"} /\ cmd.pc \in {"query", "send", "edit", "resend"})

\* ------------------------------------------------- accounts with a past
\* The bot is added to accounts that already hold a transaction: no cursor
\* row (db.py:106-109 reads 0), no buys, the first transaction on the chain.
LiveStart ==
    /\ groups \in {TableSamePool, TableApart}
    /\ chainLen = [p \in Pools |-> 1]
    /\ chainBase = chainLen
    /\ cursor = [p \in Pools |-> 0]
    /\ buys = [k \in BuyKeys |-> 0]
    /\ hist = EmptyHist

LiveInit ==
    /\ LiveStart
    /\ lpc = "top"
    /\ group_cfgs = <<>>
    /\ gi = 0
    /\ tasks = [d \in 1..2 |-> IdleTask]
    /\ events = <<>>
    /\ ei = 0
    /\ channel_recent = <<>>
    /\ clock = 0
    /\ faults = 0
    /\ lb = LbStart
    /\ RankStart
    /\ seen_call = NoCall
    /\ MetricsStart

\* The steps of the polling loop and the poller while the clock stands still:
\* the ticks follow each other within one time-to-live of the cross-post
\* memory, so that every fingerprint it learnt is still held.
LiveNext ==
    \/ TickStart
    \/ PollGroupStart
    \/ \E d \in 1..2 : GetCursor(d)
    \/ \E d \in 1..2 : FetchOk(d)
    \/ \E d \in 1..2 : FetchFail(d)
    \/ \E d \in 1..2 : ProcessTx(d)
    \/ \E d \in 1..2 : ProcessFail(d)
    \/ \E d \in 1..2 : SetCursor(d)
    \/ GatherDone
    \/ DeliverNoEvent
    \/ DeliverGroupSendFail
    \/ DeliverEvent
    \/ NextGroup
    \/ LoopEnd
    \/ Sleep

LiveSpec == LiveInit /\ [][LiveNext]_vars

\* C25: for a single pool within one tick the events are delivered in
\* non-decreasing logical-time order: when an event is sent to the group, no
\* event of the same pool with a larger logical time has been delivered
\* before it in this tick's batch.
C25_DeliveredInLtOrder ==
    [][Len(hist'.groupPosts) > Len(hist.groupPosts) =>
          \A j \in 1..(ei - 1) :
              events[j].pool = events[ei].pool =>
                  LtOf(events[j].idx) <= LtOf(events[ei].idx)]_vars

\* Two events of one account, the second with the larger logical time, were
\* sent to the group one after the other in the tick under way.
C25_Witness ==
    /\ ei >= 2
    /\ ei <= Len(events)
    /\ events[ei - 1].pool = events[ei].pool
    /\ LtOf(events[ei - 1].idx) < LtOf(events[ei].idx)
    /\ Len(hist.groupPosts) >= 2
    /\ gi \in 1..Len(group_cfgs)
    /\ hist.groupPosts[Len(hist.groupPosts)] = <<CurCfg.group_id, events[ei].pool, events[ei].idx>>
    /\ hist.groupPosts[Len(hist.groupPosts) - 1] = <<CurCfg.group_id, events[ei - 1].pool, events[ei - 1].idx>>

\* The fingerprints whose channel post (main.py:541) was attempted and raised.
FailedSends == {hist.channelTries[k][1] : k \in 1..Len(hist.channelTries)}

\* C26: an event whose send failed is not attempted again on a later tick:
\* the cursor of its pool is already past its transaction, so no poll visits
\* a transaction whose event's send has failed.
C26_FailedSendNeverPolledAgain ==
    \A d \in 1..2 : \A i \in Range(tasks[d].visited) :
        HashOf(tasks[d].pool, i) \notin FailedSends

\* ------------------------------------------------------------ trace parsing
\* A JSON body is kept as the sequence of <<key, value>> pairs _walk yields
\* (pool_watcher.py:11-18).  A value is a number, a string of digits, a
\* string float() accepts but isdigit() rejects ("+5"), or another string.
\* A number is m * 10^e with m not a multiple of ten (0 is m = 0, e = 0), so
\* that 5 * 10^12 and 500 are both at hand; none here is negative.
RECURSIVE Dec(_, _)
Dec(m, e) ==
    IF m = 0 THEN [m |-> 0, e |-> 0]
    ELSE IF m % 10 = 0 THEN Dec(m \div 10, e + 1)
    ELSE [m |-> m, e |-> e]

RECURSIVE DigitCount(_)
DigitCount(m) == IF m < 10 THEN 1 ELSE 1 + DigitCount(m \div 10)

RECURSIVE Pow10(_)
Pow10(k) == IF k = 0 THEN 1 ELSE 10 * Pow10(k - 1)

\* a > b for two such numbers: by the position of the leading digit, then by
\* the digits.
DecGt(a, b) ==
    IF a.m = 0 THEN FALSE
    ELSE IF b.m = 0 THEN TRUE
    ELSE LET da == DigitCount(a.m)
             db == DigitCount(b.m)
             w == Max(da, db)
         IN IF da + a.e # db + b.e THEN da + a.e > db + b.e
            ELSE a.m * Pow10(w - da) > b.m * Pow10(w - db)

\* None where such a number is expected.
NoDec == [some |-> FALSE, v |-> Dec(0, 0)]

\* max() of a non-empty collection of numbers.
DecMax(S) == CHOOSE x \in S : \A y \in S : ~DecGt(y, x)

NumV(n) == [t |-> "num", v |-> Dec(n, 0)]
NumE(m, e) == [t |-> "num", v |-> Dec(m, e)]
DigitsV(n) == [t |-> "digits", v |-> Dec(n, 0)]
SignedV(n) == [t |-> "signed", v |-> Dec(n, 0)]
JunkV == [t |-> "junk", v |-> Dec(0, 0)]

\* pool_watcher.py:135-136: the threshold 1e12 and the divisor 1e9, as
\* powers of ten.
ThresholdExp == 12
DivisorExp == 9

\* The figure is divided when it is at least the threshold.
jetton_units_inclusive(raw_jet) ==
    IF ~DecGt(Dec(1, ThresholdExp), raw_jet) THEN Dec(raw_jet.m, raw_jet.e - DivisorExp) ELSE raw_jet

\* pool_watcher.py:135-138: raw_jet / 1e9 if raw_jet > 1e12 else raw_jet
jetton_units(raw_jet) ==
    IF DecGt(raw_jet, Dec(1, ThresholdExp)) THEN Dec(raw_jet.m, raw_jet.e - DivisorExp) ELSE raw_jet

\* str(k).lower() for the keys that occur (pool_watcher.py:54).
Lower(k) == IF k = "jettonAmount" THEN "jettonamount" ELSE k

\* pool_watcher.py:26-39: the numbers under the given keys; a string counts
\* when it is all digits around at most one dot.
find_numbers(obj, keys) ==
    {obj[j][2].v : j \in {n \in 1..Len(obj) : obj[n][1] \in keys /\ obj[n][2].t \in {"num", "digits"}}}

AmountKeys == {"jetton_amount", "jettonamount", "amount"}

\* pool_watcher.py:41-75, the amount: None for an empty trace; the largest
\* number found under the amount keys, else float() of the last value whose
\* lower-cased key is an amount key.  The recipient is not used by the caller.
extract_jetton_transfer(trace) ==
    IF trace = <<>> THEN NoDec
    ELSE LET hits == {n \in 1..Len(trace) : Lower(trace[n][1]) \in AmountKeys}
             nums == find_numbers(trace, AmountKeys)
         IN IF nums # {} THEN Num(DecMax(nums))
            ELSE IF hits = {} THEN NoDec
            ELSE LET amount_raw == trace[MaxOf(hits)][2]
                 IN IF amount_raw.t = "junk" THEN NoDec ELSE Num(amount_raw.v)

\* max(nums) if nums else None
MaxOrNone(nums) == IF nums = {} THEN NoDec ELSE Num(DecMax(nums))

\* pool_watcher.py:130-141: what a trace that was fetched gives.  raw_jet
\* is not kept by the program: it records the figure the amount came from.
FromTrace(trace) ==
    LET raw_jet == extract_jetton_transfer(trace)
    IN [jetton_amount |-> IF ~raw_jet.some THEN NoDec ELSE Num(jetton_units(raw_jet.v)),
        usd_amount |-> MaxOrNone(find_numbers(trace, {"value_usd", "amount_usd", "usd"})),
        raw_jet |-> raw_jet]

Unknown == [jetton_amount |-> NoDec, usd_amount |-> NoDec, raw_jet |-> NoDec]

\* pool_watcher.py:145-151: numbers embedded in the transaction record fill
\* in what is still None.
Fallback(a, tx) ==
    [jetton_amount |-> IF a.jetton_amount.some THEN a.jetton_amount
                       ELSE MaxOrNone(find_numbers(tx, {"jetton_amount", "jettonAmount"})),
     usd_amount |-> IF a.usd_amount.some THEN a.usd_amount
                    ELSE MaxOrNone(find_numbers(tx, {"value_usd", "amount_usd", "usd", "total_value_usd"})),
     raw_jet |-> a.raw_jet]

\* The record of the i-th transaction beside lt, in_msg and hash: the first
\* has a trace id and no amounts, the second a trace id and both amounts, the
\* third an amount in USD and no trace id, later ones a trace id and the
\* token amount.
TraceIdOf(i) == IF i = 3 THEN <<>> ELSE <<i>>
RawPairs(i) ==
    CASE i = 1 -> <<>>
      [] i = 2 -> <<<<"usd", NumV(4)>>, <<"jettonAmount", DigitsV(6)>>>>
      [] i = 3 -> <<<<"total_value_usd", DigitsV(9)>>>>
      [] OTHER -> <<<<"jetton_amount", NumV(8)>>>>

\* The bodies get_trace can return: none, a transfer of 5 * 10^12 raw
\* units with a USD value, one of 500, one of exactly 10^12, a transfer whose
\* amount is only float()-readable, an amount nothing reads.
Traces ==
    {<<>>,
     <<<<"amount", NumE(5, 12)>>, <<"amount", NumV(3)>>, <<"value_usd", NumV(7)>>>>,
     <<<<"jetton_amount", NumV(500)>>>>,
     <<<<"amount", NumE(1, 12)>>>>,
     <<<<"jettonAmount", SignedV(5)>>>>,
     <<<<"amount", JunkV>>, <<"usd", JunkV>>>>}

\* get_trace raises (tonapi.py:16-27: a transport error, a status >= 400, a
\* body that is not JSON) or returns a body.
TraceReplies == {[k |-> "raise", body |-> <<>>]} \cup {[k |-> "ok", body |-> t] : t \in Traces}

\* The exception ends the coroutine.
trace_except_reraises == "failed"

\* pool_watcher.py:142-143: except Exception: pass
trace_except == "loop"

\* pool_watcher.py:123-151: the amounts of transaction i given the reply of
\* get_trace; no request is made without a trace id.
Amounts(i, reply) ==
    Fallback(IF TraceIdOf(i) = <<>> \/ reply.k = "raise" THEN Unknown ELSE FromTrace(reply.body),
             RawPairs(i))

\* pool_watcher.py:111-177, one iteration with the amounts: ProcessTx with
\* the reply of get_trace drawn.  trace records what the request did.
TracedTx(d) ==
    /\ lpc = "poll"
    /\ tasks[d].pc = "loop"
    /\ tasks[d].i <= Len(tasks[d].new)
    /\ LET t == tasks[d]
           i == t.new[t.i]
           t1 == [t EXCEPT !.newest_lt = NewestLt(t.newest_lt, LtOf(i)),
                           !.visited = Append(@, i), !.i = @ + 1]
       IN IF SkipTiny(CurCfg, MakeEvent(d, t.pool, i).ton_amount)
          THEN /\ tasks' = [tasks EXCEPT ![d] = t1]
               /\ UNCHANGED <<buys, hist>>
          ELSE \E reply \in IF TraceIdOf(i) = <<>> THEN {[k |-> "none", body |-> <<>>]} ELSE TraceReplies :
                 LET ev == MakeEvent(d, t.pool, i) @@ Amounts(i, reply) @@ [trace |-> reply.k]
                 IN IF reply.k = "raise" /\ trace_except # "loop"
                    THEN /\ tasks' = [tasks EXCEPT ![d].pc = trace_except]
                         /\ UNCHANGED <<buys, hist>>
                    ELSE /\ tasks' = [tasks EXCEPT ![d] = [t1 EXCEPT !.out = Append(@, ev)]]
                         /\ buys' = [buys EXCEPT ![<<CurCfg.group_id, d, t.pool, i>>] = @ + 1]
                         /\ hist' = [hist EXCEPT !.tickOut = @ \cup {t.pool}]
    /\ UNCHANGED <<groups, chainLen, chainBase, cursor, lpc, group_cfgs, gi, events, ei,
                   channel_recent, clock, faults>>
    /\ UNCHANGED not_poll

\* A first start on two groups; the polling loop with the traced iteration.
TraceInit == Init /\ ColdStart /\ groups \in {TableShared, TableApart}

TraceNext ==
    \/ TickStart
    \/ PollGroupStart
    \/ \E d \in 1..2 : GetCursor(d)
    \/ \E d \in 1..2 : FetchOk(d)
    \/ \E d \in 1..2 : FetchFail(d)
    \/ \E d \in 1..2 : TracedTx(d)
    \/ \E d \in 1..2 : ProcessFail(d)
    \/ \E d \in 1..2 : SetCursor(d)
    \/ GatherDone
    \/ DeliverNoEvent
    \/ DeliverGroupSendFail
    \/ DeliverEvent
    \/ NextGroup
    \/ LoopEnd
    \/ TimePasses
    \/ Sleep

TraceSpec == TraceInit /\ [][TraceNext]_vars

\* The numbers the record of transaction i holds.
RawNumbers(i) == {RawPairs(i)[n][2].v : n \in 1..Len(RawPairs(i))}

\* An event made after get_trace raised: each amount is unknown or a number
\* of the transaction record.
DegradedToUnknown(e) ==
    /\ e.usd_amount.some => e.usd_amount.v \in RawNumbers(e.idx)
    /\ e.jetton_amount.some => e.jetton_amount.v \in RawNumbers(e.idx)

\* C27: a trace that cannot be fetched or parsed never fails the poll.  The
\* event of such a transaction carries amounts that are unknown or taken from
\* the transaction record; a coroutine ends with an exception only in a step
\* where add_buy raised; the step that follows a failed trace is the next
\* transaction of the batch; and the cursor write comes after the whole
\* batch was visited and is not below any event of the batch.
C27_TraceFailureDegrades ==
    /\ [](\A d \in 1..2 : \A n \in 1..Len(tasks[d].out) :
             tasks[d].out[n].trace = "raise" => DegradedToUnknown(tasks[d].out[n]))
    /\ [][\A d \in 1..2 :
             /\ (tasks[d].pc = "loop" /\ tasks'[d].pc = "failed") => faults' = faults + 1
             /\ (Len(tasks'[d].out) > Len(tasks[d].out)
                   /\ tasks'[d].out[Len(tasks'[d].out)].trace = "raise")
                  => tasks'[d].pc = "loop" /\ tasks'[d].i = tasks[d].i + 1
             /\ WriteStep(d) =>
                  /\ tasks[d].visited = tasks[d].new
                  /\ \A n \in 1..Len(tasks[d].out) :
                       cursor'[tasks[d].pool] >= LtOf(tasks[d].out[n].idx)]_vars

\* A poll wrote the cursor after a batch of two whose traces both failed: the
\* first event has no amounts, the second those of its transaction record.
C27_Witness ==
    \E d \in 1..2 :
        /\ tasks[d].pc = "done"
        /\ tasks[d].wrote
        /\ Len(tasks[d].out) = 2
        /\ tasks[d].out[1].trace = "raise"
        /\ tasks[d].out[1].usd_amount = NoDec
        /\ tasks[d].out[1].jetton_amount = NoDec
        /\ tasks[d].out[2].trace = "raise"
        /\ tasks[d].out[2].usd_amount = Num(Dec(4, 0))
        /\ tasks[d].out[2].jetton_amount = Num(Dec(6, 0))
        /\ cursor[tasks[d].pool] = LtOf(tasks[d].out[2].idx)

\* ------------------------------------------------- configuration commands
\* db.py:137-140: the ids of the enabled groups.
EnabledIds == SelectSeq([g \in 1..Cardinality(Groups) |-> g], LAMBDA g : groups[g].enabled)

\* Group 1 watches P1; group 2 has a pool and is switched off.
TableOff ==
    (1 :> Cfg(1, TRUE, 1000, None, "P1", None)) @@ (2 :> Cfg(2, FALSE, 0, None, "P2", None))

\* The row is the one held when the process started.
get_group_cached(table, gid) == TableOff[gid]

\* db.py:70-88: the row of one group.
get_group(table, gid) == table[gid]

\* db.py:90-96: UPDATE groups SET field=? WHERE group_id=?
set_group_fields(table, gid, field, value) == [table EXCEPT ![gid][field] = value]

\* What /off and /on (main.py:209-214), /minbuy 0 (main.py:199-206) and
\* /setpool stonfi P2 (main.py:185-197) write, sent in group 1.
Edits == {<<"enabled", FALSE>>, <<"enabled", TRUE>>, <<"min_buy_ton", 0>>, <<"stonfi_pool", "P2">>}
CommandChats == {1}

\* main.py:523: the first read of a tick.
ReadIds ==
    /\ lpc = "top"
    /\ group_cfgs' = EnabledIds
    /\ lpc' = "rows"
    /\ hist' = [hist EXCEPT !.tickCursor = cursor, !.okFetch = {}, !.tried = {},
                            !.failPrev = hist.failFetch, !.failFetch = {},
                            !.tickOut = {},
                            !.partial = IF @ = <<>> THEN @ ELSE <<[@[1] EXCEPT !.armed = TRUE]>>,
                            !.tickGroups = {groups}]
    /\ UNCHANGED <<groups, chainLen, chainBase, cursor, buys, gi, tasks, events, ei,
                   channel_recent, clock, faults>>
    /\ UNCHANGED not_poll

\* main.py:524: the rows of those ids.
ReadRows ==
    /\ lpc = "rows"
    /\ group_cfgs' = [j \in 1..Len(group_cfgs) |-> get_group(groups, group_cfgs[j])]
    /\ gi' = 1
    /\ lpc' = "next"
    /\ UNCHANGED <<groups, chainLen, chainBase, cursor, buys, tasks, events, ei,
                   channel_recent, clock, faults, hist>>
    /\ UNCHANGED not_poll

\* A command handler runs while polling_loop is suspended.  The table is
\* read at main.py:523-524 only, so a write at any other point of a tick is
\* the same to the loop as one during its sleep: the writes are taken
\* between the two reads and during the sleep.
SetGroupFields ==
    /\ lpc \in {"rows", "sleep"}
    /\ \E gid \in CommandChats : \E e \in Edits :
         /\ groups' = set_group_fields(groups, gid, e[1], e[2])
         /\ groups' # groups
    /\ hist' = [hist EXCEPT !.tickGroups = IF lpc = "rows" THEN @ \cup {groups'} ELSE @]
    /\ UNCHANGED <<chainLen, chainBase, cursor, buys, lpc, group_cfgs, gi, tasks, events, ei,
                   channel_recent, clock, faults>>
    /\ UNCHANGED not_poll

ConfigInit ==
    /\ groups = TableOff
    /\ chainLen = [p \in Pools |-> 0]
    /\ chainBase = [p \in Pools |-> 0]
    /\ cursor = [p \in Pools |-> 0]
    /\ buys = [k \in BuyKeys |-> 0]
    /\ hist = EmptyHist
    /\ lpc = "top"
    /\ group_cfgs = <<>>
    /\ gi = 0
    /\ tasks = [d \in 1..2 |-> IdleTask]
    /\ events = <<>>
    /\ ei = 0
    /\ channel_recent = <<>>
    /\ clock = 0
    /\ faults = 0
    /\ lb = LbStart
    /\ RankStart
    /\ seen_call = NoCall
    /\ MetricsStart

ConfigNext ==
    \/ ReadIds
    \/ ReadRows
    \/ SetGroupFields
    \/ PollGroupStart
    \/ \E d \in 1..2 : GetCursor(d)
    \/ \E d \in 1..2 : FetchOk(d)
    \/ \E d \in 1..2 : ProcessTx(d)
    \/ \E d \in 1..2 : SetCursor(d)
    \/ GatherDone
    \/ DeliverEvent
    \/ NextGroup
    \/ LoopEnd
    \/ Sleep

ConfigSpec == ConfigInit /\ [][ConfigNext]_vars

\* Inside a tick: the rows are read and the sleep not yet reached.
InTick == lpc \in {"next", "poll", "deliver"}

\* C28: the configuration is read afresh at the start of every tick.  Inside
\* a tick every row the loop holds is a row the table has held since the tick
\* began, and every group enabled throughout is among them; a coroutine runs
\* only for an enabled configuration and on one of its pools; its events pass
\* the minimum buy of that row; and a cursor changes only under such a
\* coroutine, so a disabled configuration has no fetch, event or cursor write.
C28_ConfigurationReadEveryTick ==
    /\ [](InTick =>
            /\ \A j \in 1..Len(group_cfgs) :
                 \E T \in hist.tickGroups : group_cfgs[j] = T[group_cfgs[j].group_id]
            /\ \A g \in Groups :
                 (\A T \in hist.tickGroups : T[g].enabled)
                     => \E j \in 1..Len(group_cfgs) : group_cfgs[j].group_id = g)
    /\ [](\A d \in 1..2 : tasks[d].pc # "none" =>
            /\ CurCfg.enabled
            /\ tasks[d].pool = PoolOf(CurCfg, d)
            /\ \A n \in 1..Len(tasks[d].out) : ~SkipTiny(CurCfg, tasks[d].out[n].ton_amount))
    /\ [][\A p \in Pools : (cursor'[p] # cursor[p] \/ chainLen'[p] # chainLen[p]) =>
            \E d \in 1..2 : tasks[d].pc \in {"fetch", "loop"} /\ tasks[d].pool = p]_vars

\* Group 1, first polled on P1 with a minimum buy of 1 TON, was re-pointed
\* to P2 with no minimum: the tick that follows polls P2 and keeps the
\* 0.5 TON transaction.
C28_Witness ==
    /\ lpc = "poll"
    /\ cursor["P1"] > 0
    /\ groups[1] = Cfg(1, TRUE, 0, None, "P2", None)
    /\ CurCfg = groups[1]
    /\ tasks[1].pc = "done"
    /\ tasks[1].wrote
    /\ tasks[1].pool = "P2"
    /\ Len(tasks[1].out) > 0
    /\ tasks[1].out[1].idx = 1

\* Coroutine d has read the cursor (pool_watcher.py:89) and has neither
\* written it (pool_watcher.py:179) nor returned.
CursorHeld(d) == tasks[d].pc \in {"fetch", "loop"}

\* C30: each pool cursor has one writer at a time: no two polls of the same
\* pool address have both read the cursor and not yet written it.
C30_OnePollPerPoolInFlight ==
    \A d \in 1..2 : \A e \in 1..2 :
        (d # e /\ CursorHeld(d) /\ CursorHeld(e)) => tasks[d].pool # tasks[e].pool

\* The events the coroutines hold whose token amount came from a trace.
TraceAmountEvents ==
    {e \in UNION {Range(tasks[d].out) : d \in 1..2} : e.trace = "ok" /\ e.raw_jet.some}

\* x is strictly above 10^12: its leading digit stands beyond the thirteenth
\* place, or on it with something other than a bare 1.
AboveTenToTwelve(x) ==
    /\ x.m > 0
    /\ \/ DigitCount(x.m) + x.e > 13
       \/ DigitCount(x.m) + x.e = 13 /\ x.m # 1

\* C31: the figure recovered from a trace is divided by 10^9 exactly when it
\* is strictly greater than 10^12 and is left unchanged otherwise: 5*10^12
\* gives 5000, 500 stays 500, exactly 10^12 stays 10^12.
C31_NanoHeuristicStrictlyAbove ==
    \A e \in TraceAmountEvents :
        /\ AboveTenToTwelve(e.raw_jet.v) => e.jetton_amount.v = Dec(e.raw_jet.v.m, e.raw_jet.v.e - 9)
        /\ ~AboveTenToTwelve(e.raw_jet.v) => e.jetton_amount.v = e.raw_jet.v
        /\ e.raw_jet.v = Dec(5, 12) => e.jetton_amount.v = Dec(5000, 0)
        /\ e.raw_jet.v = Dec(500, 0) => e.jetton_amount.v = Dec(500, 0)
        /\ e.raw_jet.v = Dec(1, 12) => e.jetton_amount.v = Dec(1, 12)

\* One batch gave an event from a figure of 5*10^12 and one from exactly
\* 10^12.
C31_Witness ==
    /\ \E e \in TraceAmountEvents : e.raw_jet.v = Dec(5, 12) /\ e.jetton_amount.v = Dec(5000, 0)
    /\ \E e \in TraceAmountEvents : e.raw_jet.v = Dec(1, 12)

\* C32: every Buy Event the Poller emits or persists carries a known TON
\* amount: a transaction whose in_msg.value is absent or not an integer
\* gives no event and no row, whatever the minimum buy.
C32_EventsCarryTonAmount ==
    /\ \A d \in 1..2 : \A ev \in Range(tasks[d].out) : ev.ton_amount.some
    /\ \A ev \in Range(events) : ev.ton_amount.some
    /\ \A k \in BuyKeys : buys[k] > 0 => Known(k[4])

\* main.py:530: key = gcfg.token_symbol or gcfg.jetton_address or "UNKNOWN"
\* (an empty text is falsy).
rank_key(gcfg) ==
    IF gcfg.token_symbol # Null /\ gcfg.token_symbol[1] # <<>> THEN gcfg.token_symbol[1]
    ELSE IF gcfg.jetton_address # Null /\ gcfg.jetton_address[1] # <<>> THEN gcfg.jetton_address[1]
    ELSE UNKNOWN

\* main.py:531: ev.rank = lb.rank_map.get(key); <<>> is None.
rank_get(map, key) == IF key \in DOMAIN map THEN <<map[key]>> ELSE <<>>

\* C33: the rank attached to an event is looked up under the key its row is
\* aggregated under: whenever the Rank Table ranks the token of a persisted
\* buy at r, an event of that configuration is given rank r.
C33_RankLookedUpUnderPersistedKey ==
    \A r \in OwnRows :
        KeyOfRow(r) \in DOMAIN rank_map =>
            rank_get(rank_map, rank_key(RankCfgs[r.group_id])) = <<rank_map[KeyOfRow(r)]>>

\* C34: a snapshot with no known fields is cached like any other: a call for
\* a token whose cache entry is within the TTL and holds the empty snapshot
\* returns that snapshot from the cache and issues no outbound call.
C34_EmptySnapshotServedFromCache ==
    [][\A c \in Callers :
         (/\ Begins(c)
          /\ Fresh(m_tasks'[c].key, mnow)
          /\ m_cache[m_tasks'[c].key].val = EmptyDict)
         => /\ m_tasks'[c].hit
            /\ m_tasks'[c].calls = 0
            /\ m_tasks'[c].ret = EmptyDict]_vars

\* The number of rows of the event log that record transaction i of pool p.
RECURSIVE RowsOf(_, _, _)
RowsOf(K, p, i) ==
    IF K = {} THEN 0
    ELSE LET k == CHOOSE x \in K : TRUE
         IN buys[<<k[1], k[2], p, i>>] + RowsOf(K \ {k}, p, i)

\* C35: each transaction of a pool is appended to the persisted event log at
\* most once across any sequence of ticks, also when the processing of a batch
\* stops part-way after some of its events were stored: no step appends a row
\* for a transaction that already has one.
C35_TransactionPersistedAtMostOnce ==
    [][\A p \in Pools : \A i \in 1..(WarmLen + MaxTx) :
         RowsOf(Groups \X {1, 2}, p, i)' > RowsOf(Groups \X {1, 2}, p, i)
             => RowsOf(Groups \X {1, 2}, p, i) = 0]_vars

\* The fingerprints whose channel post was attempted and failed no more than
\* CHANNEL_DEDUPE_TTL seconds ago.
LiveFailedTries ==
    {hist.channelTries[j][1] : j \in {k \in 1..Len(hist.channelTries) :
        /\ hist.channelTries[k] \notin Range(hist.channelPosts)
        /\ now - hist.channelTries[k][2] <= CHANNEL_DEDUPE_TTL}}

\* C36: a fingerprint is marked before its channel post is attempted and the
\* mark stays when that post fails: while the window of a failed attempt
\* lasts the fingerprint is in the dedup map, and the delivery of an event
\* with that fingerprint is suppressed, attempts no channel post and sends
\* nothing to the channel.
C36_MarkSurvivesFailedChannelPost ==
    /\ [](\A f \in LiveFailedTries : f \in DOMAIN channel_recent)
    /\ [][(/\ Delivering
           /\ Fingerprint(events[ei]) # <<>>
           /\ Fingerprint(events[ei])[1] \in LiveFailedTries
           /\ hist'.groupPosts # hist.groupPosts)
            => /\ <<CurCfg.group_id, Fingerprint(events[ei])[1]>> \in hist'.suppressed
               /\ hist'.channelTries = hist.channelTries
               /\ hist'.channelPosts = hist.channelPosts
               /\ Fingerprint(events[ei])[1] \in DOMAIN channel_recent']_vars

\* The channel post of a fingerprint failed, and an event with the same
\* fingerprint that arrived within the window was suppressed.
C36_Witness ==
    \E x \in hist.suppressed :
        /\ x[2] \in LiveFailedTries
        /\ x[2] \notin {hist.channelPosts[j][1] : j \in 1..Len(hist.channelPosts)}
        /\ channel_recent[x[2]] <= now

\* The tables that number the keys of a list the aggregation query can
\* return now, from 1 in the order of the list.
RankTablesNow ==
    {[k \in {items[i].key : i \in 1..Len(items)} |-> CHOOSE i \in 1..Len(items) : items[i].key = k] :
        items \in get_recent_leaderboard(lb_rows, lb_now)}

\* C37: on a tick of the leaderboard loop whose query succeeds the new Rank
\* Table is in place when the send or the edit is about to be attempted, and
\* no later step of the tick changes it, however the delivery ends; an edit
\* that ends in anything but a bad-request rejection, and a send that raises,
\* leave the remembered message id as it was and end the tick with no new
\* message.
C37_TablePublishedBeforeDelivery ==
    /\ [][(lb.pc = "top" /\ lb'.pc \in {"send", "edit"})
            => /\ rank_map' \in RankTablesNow
               /\ lb'.message_id = lb.message_id
               /\ lb_log' = lb_log]_vars
    /\ [][(lb.pc \in {"send", "edit", "resend", "sleep"} /\ lb'.pc # lb.pc)
            => rank_map' = rank_map]_vars
    /\ [][(lb.pc = "edit" /\ lb'.pc \notin {"edit", "resend"})
            => /\ lb'.pc = "sleep"
               /\ lb'.message_id = lb.message_id
               /\ lb_log'.recreated = lb_log.recreated
               /\ lb_log'.created = lb_log.created]_vars
    /\ [][(lb.pc \in {"send", "edit"} /\ lb'.raised /\ ~lb.raised)
            => /\ lb'.pc = "sleep"
               /\ lb'.message_id = lb.message_id
               /\ lb_log' = lb_log]_vars

\* A delivery has raised with a message remembered: the tick is over, the
\* table of the rows now persisted is published and the message id is kept.
C37_Witness ==
    /\ lb.raised /\ lb.pc = "sleep"
    /\ lb.message_id # 0
    /\ rank_map # <<>>
    /\ rank_map \in RankTablesNow

====
